---------------------------- MODULE Spec2Model ----------------------------
(***************************************************************************)
(* Orbit computation of wmpl/Trajectory/Orbit.py (calcOrbit, Orbit and     *)
(* Orbit.__repr__).                                                        *)
(*                                                                         *)
(* Floating point numbers are modelled as decimal fixed point values with  *)
(* the IEEE special values: a finite number n stands for n/Scale, results  *)
(* are rounded to the nearest representable value without underflow to     *)
(* zero, magnitudes above MaxFin overflow to an infinity, and invalid      *)
(* operations give NaN.  Python's None is a value of its own.  The         *)
(* physical constants are scaled down to a small solar system so that      *)
(* every intermediate value fits the model's number range; each keeps the  *)
(* name and the role it has in the source.                                 *)
(***************************************************************************)
EXTENDS Integers, Sequences, FiniteSets, TLC

(***************************************************************************)
(* Numbers                                                                 *)
(***************************************************************************)

\* One unit of the fixed point representation: Fin(Scale) is 1.0.
Scale == 100

\* Largest finite magnitude; anything larger is an infinity.
MaxFin == 20000000

None == <<"none", 0>>

NaN == <<"nan", 0>>

PosInf == <<"inf", 1>>

NegInf == <<"inf", -1>>

Fin(n) == IF n > MaxFin THEN PosInf ELSE IF n < -MaxFin THEN NegInf ELSE <<"fin", n>>

IsNone(x) == x = None

IsNaN(x) == x[1] = "nan"

IsInf(x) == x[1] = "inf"

IsFin(x) == x[1] = "fin"

AbsInt(n) == IF n < 0 THEN -n ELSE n

SgnInt(n) == IF n < 0 THEN -1 ELSE IF n > 0 THEN 1 ELSE 0

MaxInt2(a, b) == IF a > b THEN a ELSE b

\* Sign of a number that is not NaN: -1, 0 or 1.
Sgn(x) == IF IsInf(x) THEN x[2] ELSE SgnInt(x[2])

Inf(s) == IF s < 0 THEN NegInf ELSE PosInf

\* n/d for d > 0, rounded to the nearest integer (halves away from zero).
RoundDiv(n, d) ==
    LET q == AbsInt(n) \div d
        r == AbsInt(n) % d
        m == IF r >= d - r THEN q + 1 ELSE q
    IN  SgnInt(n) * m

\* n/d rounded as RoundDiv, except that a quotient that is not zero does not
\* round to zero: the range of a double is far beyond every magnitude met
\* here, so a product or quotient of non-zero numbers keeps its sign.
RoundNoUnderflow(n, d) ==
    IF n # 0 /\ RoundDiv(n, d) = 0 THEN SgnInt(n) ELSE RoundDiv(n, d)

RECURSIVE SqrtSearch(_, _, _)
SqrtSearch(n, lo, hi) ==
    IF lo >= hi THEN lo
    ELSE LET mid == (lo + hi + 1) \div 2
         IN  IF mid * mid <= n THEN SqrtSearch(n, mid, hi) ELSE SqrtSearch(n, lo, mid - 1)

\* Square root of a natural number, rounded to the nearest integer.
ISqrt(n) ==
    LET s == SqrtSearch(n, 0, 46340)
    IN  IF n - s * s > s THEN s + 1 ELSE s

FNeg(x) == IF IsNaN(x) THEN NaN ELSE IF IsInf(x) THEN Inf(-x[2]) ELSE Fin(-x[2])

FAbs(x) == IF IsNaN(x) THEN NaN ELSE IF IsInf(x) THEN PosInf ELSE Fin(AbsInt(x[2]))

FAdd(x, y) ==
    IF IsNaN(x) \/ IsNaN(y) THEN NaN
    ELSE IF IsInf(x) /\ IsInf(y) THEN (IF x[2] = y[2] THEN x ELSE NaN)
    ELSE IF IsInf(x) THEN x
    ELSE IF IsInf(y) THEN y
    ELSE Fin(x[2] + y[2])

FSub(x, y) == FAdd(x, FNeg(y))

FMul(x, y) ==
    IF IsNaN(x) \/ IsNaN(y) THEN NaN
    ELSE IF Sgn(x) = 0 \/ Sgn(y) = 0
         THEN (IF IsInf(x) \/ IsInf(y) THEN NaN ELSE Fin(0))
    ELSE IF IsInf(x) \/ IsInf(y) THEN Inf(Sgn(x) * Sgn(y))
    ELSE IF AbsInt(y[2]) > (MaxFin * Scale) \div AbsInt(x[2]) THEN Inf(Sgn(x) * Sgn(y))
    ELSE Fin(RoundNoUnderflow(x[2] * y[2], Scale))

FDiv(x, y) ==
    IF IsNaN(x) \/ IsNaN(y) THEN NaN
    ELSE IF IsInf(x) THEN (IF IsInf(y) THEN NaN ELSE Inf(x[2] * (IF Sgn(y) < 0 THEN -1 ELSE 1)))
    ELSE IF IsInf(y) THEN Fin(0)
    ELSE IF y[2] = 0 THEN (IF x[2] = 0 THEN NaN ELSE Inf(Sgn(x)))
    ELSE Fin(SgnInt(y[2]) * RoundNoUnderflow(x[2] * Scale, AbsInt(y[2])))

FSqrt(x) ==
    IF IsNaN(x) THEN NaN
    ELSE IF IsInf(x) THEN (IF x[2] > 0 THEN PosInf ELSE NaN)
    ELSE IF x[2] < 0 THEN NaN
    ELSE Fin(ISqrt(x[2] * Scale))

\* x**(3.0/2) of numpy: NaN for a negative finite base, +inf for either infinity.
FPow15(x) ==
    IF IsNaN(x) THEN NaN
    ELSE IF IsInf(x) THEN PosInf
    ELSE IF x[2] < 0 THEN NaN
    ELSE FMul(x, FSqrt(x))

\* Comparisons of IEEE numbers: every comparison with NaN is false.
FGt(x, y) ==
    /\ ~IsNaN(x)
    /\ ~IsNaN(y)
    /\ IF IsInf(x) THEN x[2] > 0 /\ x # y
       ELSE IF IsInf(y) THEN y[2] < 0
       ELSE x[2] > y[2]

FLt(x, y) == FGt(y, x)

FEq(x, y) == ~IsNaN(x) /\ ~IsNaN(y) /\ x = y

FNe(x, y) == ~FEq(x, y)

\* x % m of Python for a finite m > 0: the result has the sign of m.
FMod(x, m) == IF IsFin(x) THEN Fin(x[2] % m[2]) ELSE NaN

(***************************************************************************)
(* Angles are in radians, in the same fixed point representation.          *)
(***************************************************************************)

PI == 314

TWO_PI == 2 * PI

HALF_PI == PI \div 2

\* round(Scale*cos(k/Scale)) for k = 0 .. HALF_PI
CosTab == <<
    100, 100, 100, 100, 100, 100, 100, 100, 100, 100, 100, 99, 99, 99, 99, 99, 99, 99, 98,
    98, 98, 98, 98, 97, 97, 97, 97, 96, 96, 96, 96, 95, 95, 95, 94, 94, 94, 93, 93, 92, 92,
    92, 91, 91, 90, 90, 90, 89, 89, 88, 88, 87, 87, 86, 86, 85, 85, 84, 84, 83, 83, 82, 81,
    81, 80, 80, 79, 78, 78, 77, 76, 76, 75, 75, 74, 73, 72, 72, 71, 70, 70, 69, 68, 67, 67,
    66, 65, 64, 64, 63, 62, 61, 61, 60, 59, 58, 57, 57, 56, 55, 54, 53, 52, 51, 51, 50, 49,
    48, 47, 46, 45, 44, 44, 43, 42, 41, 40, 39, 38, 37, 36, 35, 34, 33, 32, 32, 31, 30, 29,
    28, 27, 26, 25, 24, 23, 22, 21, 20, 19, 18, 17, 16, 15, 14, 13, 12, 11, 10, 9, 8, 7, 6,
    5, 4, 3, 2, 1, 0
    >>

\* round(Scale*arccos(c/Scale)) for c = -Scale .. Scale
ArccosTab == <<
    314, 300, 294, 290, 286, 282, 279, 277, 274, 271, 269, 267, 265, 263, 261, 259, 257,
    255, 253, 251, 250, 248, 247, 245, 243, 242, 240, 239, 237, 236, 235, 233, 232, 231,
    229, 228, 227, 225, 224, 223, 221, 220, 219, 218, 217, 215, 214, 213, 212, 211, 209,
    208, 207, 206, 205, 204, 203, 202, 200, 199, 198, 197, 196, 195, 194, 193, 192, 191,
    190, 189, 188, 187, 185, 184, 183, 182, 181, 180, 179, 178, 177, 176, 175, 174, 173,
    172, 171, 170, 169, 168, 167, 166, 165, 164, 163, 162, 161, 160, 159, 158, 157, 156,
    155, 154, 153, 152, 151, 150, 149, 148, 147, 146, 145, 144, 143, 142, 141, 140, 139,
    138, 137, 136, 135, 134, 133, 132, 131, 130, 129, 128, 127, 126, 125, 123, 122, 121,
    120, 119, 118, 117, 116, 115, 114, 113, 112, 110, 109, 108, 107, 106, 105, 104, 102,
    101, 100, 99, 98, 96, 95, 94, 93, 91, 90, 89, 88, 86, 85, 84, 82, 81, 80, 78, 77, 75,
    74, 72, 71, 69, 68, 66, 64, 63, 61, 59, 57, 55, 54, 52, 49, 47, 45, 43, 40, 38, 35, 32,
    28, 25, 20, 14, 0
    >>

CosInt(a) ==
    LET r == a % TWO_PI
        h == IF r > PI THEN TWO_PI - r ELSE r
    IN  IF h <= HALF_PI THEN CosTab[h + 1] ELSE -CosTab[PI - h + 1]

FCos(x) == IF IsFin(x) THEN Fin(CosInt(x[2])) ELSE NaN

FSin(x) == IF IsFin(x) THEN Fin(CosInt(x[2] - HALF_PI)) ELSE NaN

FTan(x) == FDiv(FSin(x), FCos(x))

FArccos(x) ==
    IF IsFin(x) /\ AbsInt(x[2]) <= Scale THEN Fin(ArccosTab[x[2] + Scale + 1]) ELSE NaN

\* Angle of the direction (x, y) for integers that are not both zero.
Atan2Int(y, x) ==
    LET m  == MaxInt2(AbsInt(x), AbsInt(y))
        k  == m \div 10000 + 1
        f  == 10000 \div m
        xs == IF m >= 10000 THEN x \div k ELSE x * f
        ys == IF m >= 10000 THEN y \div k ELSE y * f
        c  == RoundDiv(xs * Scale, ISqrt(xs * xs + ys * ys))
        t  == ArccosTab[c + Scale + 1]
    IN  IF y < 0 THEN -t ELSE t

FArctan2(y, x) ==
    IF IsNaN(x) \/ IsNaN(y) THEN NaN
    ELSE IF IsInf(y)
         THEN (IF IsFin(x) THEN Fin(y[2] * HALF_PI)
               ELSE IF x[2] > 0 THEN Fin(y[2] * (HALF_PI \div 2))
               ELSE Fin(y[2] * (PI - HALF_PI \div 2)))
    ELSE IF IsInf(x) THEN (IF x[2] > 0 THEN Fin(0) ELSE Fin(IF y[2] < 0 THEN -PI ELSE PI))
    ELSE IF x[2] = 0 /\ y[2] = 0 THEN Fin(0)
    ELSE Fin(Atan2Int(y[2], x[2]))

\* np.degrees
Degrees(x) == FMul(x, Fin(5730))

(***************************************************************************)
(* Vectors of three numbers (numpy arrays)                                 *)
(***************************************************************************)

Vec(a, b, c) == <<Fin(a), Fin(b), Fin(c)>>

VAdd(u, v) == <<FAdd(u[1], v[1]), FAdd(u[2], v[2]), FAdd(u[3], v[3])>>

VSub(u, v) == <<FSub(u[1], v[1]), FSub(u[2], v[2]), FSub(u[3], v[3])>>

VScale(s, v) == <<FMul(s, v[1]), FMul(s, v[2]), FMul(s, v[3])>>

VDiv(v, s) == <<FDiv(v[1], s), FDiv(v[2], s), FDiv(v[3], s)>>

Dot(u, v) == FAdd(FAdd(FMul(u[1], v[1]), FMul(u[2], v[2])), FMul(u[3], v[3]))

Cross(u, v) ==
    << FSub(FMul(u[2], v[3]), FMul(u[3], v[2])),
       FSub(FMul(u[3], v[1]), FMul(u[1], v[3])),
       FSub(FMul(u[1], v[2]), FMul(u[2], v[1])) >>

vectMag(v) == FSqrt(Dot(v, v))

vectNorm(v) == VDiv(v, vectMag(v))

(***************************************************************************)
(* Constants of the scaled-down solar system.  Lengths of the Earth frame  *)
(* are in "metres", those of the Sun frame in "kilometres"; M_PER_KM       *)
(* metres make one kilometre.                                              *)
(***************************************************************************)

\* 2*G*M_Earth, (2*6.67408*5.9722)*1e13 in the source
EARTH_2GM == 6400

\* Length of the sidereal day in seconds, 86164.09053 in the source
SIDEREAL_DAY_S == 2513

\* 1000 in the source (metres in a kilometre)
M_PER_KM == 200

\* 86400 in the source (seconds in a day)
DAY_S == 400

AU == 400

SUN_MU == 1600

\* G*SUN_MASS, the Sun's gravitational parameter in metres
G_SUN_MASS == 12800

SIDEREAL_YEAR == 314

J2000_JD_days == 0

J2000_OBLIQUITY == 41

\* Gaussian gravitational constant, 0.01720209895 in the source
GAUSS_K == 200

\* Semi-major axis of Jupiter in AU, 5.204267 in the source
JUPITER_A == 520

\* Radius of the Earth
EARTH_RADIUS == 400

(***************************************************************************)
(* Collaborators of wmpl.Utils (not part of the source under study): time, *)
(* site and frame conversions, modelled at their interface.                *)
(***************************************************************************)

FArcsin(x) == FSub(Fin(HALF_PI), FArccos(x))

\* Angle wrapped into (-pi, pi]
WrapPi(x) ==
    LET m == FMod(x, Fin(TWO_PI))
    IN  IF FGt(m, Fin(PI)) THEN FSub(m, Fin(TWO_PI)) ELSE m

\* Greenwich sidereal time at a Julian date: one turn per day
jd2GST(jd) == FMod(FMul(jd, Fin(TWO_PI)), Fin(TWO_PI))

\* Local sidereal time in radians, for a longitude in radians
LocalSiderealTime(jd, lon) == FMod(FAdd(jd2GST(jd), lon), Fin(TWO_PI))

\* np.radians
Radians(x) == FDiv(x, Fin(5730))

\* jd2LST(jd, lon)[0]: local sidereal time in degrees, for a longitude in degrees
jd2LST(jd, lon_deg) == FMod(FAdd(Degrees(jd2GST(jd)), lon_deg), Fin(36000))

jd2DynamicalTimeJD(jd) == FAdd(jd, Fin(1))

cartesian2Geo(jd, x, y, z) ==
    [ lat |-> FArctan2(z, FSqrt(FAdd(FMul(x, x), FMul(y, y)))),
      lon |-> WrapPi(FSub(FArctan2(y, x), jd2GST(jd))),
      ht  |-> FSub(vectMag(<<x, y, z>>), Fin(EARTH_RADIUS)) ]

altAz2RADec(azim, alt, jd, lat, lon) ==
    LET sd == FAdd(FMul(FSin(lat), FSin(alt)), FMul(FMul(FCos(lat), FCos(alt)), FCos(azim)))
        ha == FArctan2(FNeg(FMul(FSin(azim), FCos(alt))),
                       FSub(FMul(FSin(alt), FCos(lat)),
                            FMul(FMul(FCos(alt), FSin(lat)), FCos(azim))))
    IN  [ ra |-> FMod(FSub(LocalSiderealTime(jd, lon), ha), Fin(TWO_PI)), dec |-> FArcsin(sd) ]

raDec2AltAz(ra, dec, jd, lat, lon) ==
    LET ha == FSub(LocalSiderealTime(jd, lon), ra)
        sa == FAdd(FMul(FSin(lat), FSin(dec)), FMul(FMul(FCos(lat), FCos(dec)), FCos(ha)))
        az == FArctan2(FNeg(FMul(FSin(ha), FCos(dec))),
                       FSub(FMul(FSin(dec), FCos(lat)),
                            FMul(FMul(FCos(dec), FSin(lat)), FCos(ha))))
    IN  [ azim |-> FMod(az, Fin(TWO_PI)), alt |-> FArcsin(sa) ]

eci2RaDec(v) ==
    [ ra  |-> FMod(FArctan2(v[2], v[1]), Fin(TWO_PI)),
      dec |-> FArctan2(v[3], FSqrt(FAdd(FMul(v[1], v[1]), FMul(v[2], v[2])))) ]

cartesianToSpherical(x, y, z) ==
    LET r == vectMag(<<x, y, z>>)
    IN  [ r |-> r, theta |-> FArcsin(FDiv(z, r)), phi |-> FArctan2(y, x) ]

sphericalToCartesian(r, theta, phi) ==
    << FMul(r, FMul(FCos(theta), FCos(phi))),
       FMul(r, FMul(FCos(theta), FSin(phi))),
       FMul(r, FSin(theta)) >>

\* Rotation about the x axis, the only axis calcOrbit rotates about
rotateVector(v, theta) ==
    << v[1],
       FSub(FMul(v[2], FCos(theta)), FMul(v[3], FSin(theta))),
       FAdd(FMul(v[2], FSin(theta)), FMul(v[3], FCos(theta))) >>

\* Precession between two epochs: a rotation about the pole
equatorialCoordPrecession(jd_from, jd_to, ra, dec) ==
    [ ra |-> FMod(FAdd(ra, FMul(FSub(jd_to, jd_from), Fin(TWO_PI))), Fin(TWO_PI)), dec |-> dec ]

raDec2Ecliptic(jd, ra, dec) ==
    LET w == rotateVector(sphericalToCartesian(Fin(Scale), dec, ra), FNeg(Fin(J2000_OBLIQUITY)))
    IN  [ L |-> FMod(FArctan2(w[2], w[1]), Fin(TWO_PI)), B |-> FArcsin(w[3]) ]

eclipticToRectangularVelocityVect(L, B, v) ==
    << FNeg(FMul(v, FMul(FCos(L), FCos(B)))),
       FNeg(FMul(v, FMul(FSin(L), FCos(B)))),
       FNeg(FMul(v, FSin(B))) >>

correctedEclipticCoord(L_g, B_g, v_g, earth_vel) ==
    LET w == VAdd(earth_vel, eclipticToRectangularVelocityVect(L_g, B_g, v_g))
    IN  [ L_h     |-> FMod(FArctan2(FNeg(w[2]), FNeg(w[1])), Fin(TWO_PI)),
          B_h     |-> FArctan2(FNeg(w[3]), FSqrt(FAdd(FMul(w[1], w[1]), FMul(w[2], w[2])))),
          met_v_h |-> w ]

\* jd2Date(jd, dt_obj=True): the calendar date of a Julian date.  A Julian date
\* that is not finite has no calendar date: the conversion either raises or
\* answers with the earliest date it can represent.
jd2DateDefined(jd) == IsFin(jd)

jd2Date(jd) == <<"date", IF IsFin(jd) THEN jd ELSE Fin(-MaxFin)>>

\* datetime2JD(date): the Julian date of a calendar date
datetime2JD(date) == date[2]

\* associateShower(la_sun, L_g, B_g, v_g): the catalogue shower the radiant
\* belongs to, or None.  The catalogue holds one shower.
associateShower(la_sun, L_g, B_g, v_g) ==
    IF /\ IsFin(la_sun) /\ IsFin(L_g) /\ IsFin(B_g) /\ IsFin(v_g)
       /\ FLt(FAbs(B_g), Fin(50))
       /\ FLt(FAbs(FSub(v_g, Fin(3 * Scale))), Fin(Scale))
    THEN <<"shower", 7, "PER">>
    ELSE None

\* The ephemeris kernels a deployment may be configured with.  Each gives the
\* position (km) and the velocity (km/s) of the Earth relative to the Sun, in
\* ecliptic coordinates, before and after the Julian date 0.20.
Kernels ==
    << [ early |-> [pos |-> Vec(400, 0, 0), vel |-> Vec(0, 200, 0)],
         late  |-> [pos |-> Vec(0, 400, 0), vel |-> Vec(-200, 0, 0)] ],
       [ early |-> [pos |-> Vec(600, 0, 0), vel |-> Vec(335, 76, 0)],
         late  |-> [pos |-> Vec(300, 0, 0), vel |-> Vec(0, 200, 100)] ] >>

\* calcEarthRectangularCoordJPL(jd, kernel, sun_centre_origin=True)
calcEarthRectangularCoordJPL(jd, k) ==
    IF FGt(jd, Fin(20)) THEN Kernels[k].late ELSE Kernels[k].early

\* jd2SolLonJPL(jd): ecliptic longitude of the Sun seen from the Earth
jd2SolLonJPL(jd, k) ==
    LET e == calcEarthRectangularCoordJPL(jd, k)
    IN  FMod(FArctan2(FNeg(e.pos[2]), FNeg(e.pos[1])), Fin(TWO_PI))

(***************************************************************************)
(* class Orbit                                                             *)
(***************************************************************************)

ApparentFields ==
    {"ra", "dec", "azimuth_apparent", "elevation_apparent", "v_avg", "v_init"}

NoRotFields ==
    {"ra_norot", "dec_norot", "azimuth_apparent_norot", "elevation_apparent_norot",
     "v_avg_norot", "v_init_norot"}

ReferenceFields ==
    {"jd_ref", "jd_dyn", "lst_ref", "lon_ref", "lat_ref", "ht_ref", "lat_geocentric"}

GeoHelioFields ==
    {"zc", "zg", "v_inf", "v_g", "ra_g", "dec_g", "L_g", "B_g", "meteor_pos", "v_h",
     "v_h_x", "v_h_y", "v_h_z", "L_h", "B_h", "la_sun", "a", "e", "i", "peri", "node",
     "pi", "q", "Q", "true_anomaly", "eccentric_anomaly", "mean_anomaly",
     "last_perihelion", "n", "Tj", "T"}

OrbitFields == ApparentFields \cup NoRotFields \cup ReferenceFields \cup GeoHelioFields

\* Orbit.__init__: every attribute is None
NewOrbit == [f \in OrbitFields |-> None]

\* The object o after the attribute assignments upd (a record)
SetAttrs(o, upd) == [f \in DOMAIN o |-> IF f \in DOMAIN upd THEN upd[f] ELSE o[f]]

(***************************************************************************)
(* calcOrbit, block by block.  a is the record of arguments, l the record  *)
(* of local variables assigned so far.                                     *)
(***************************************************************************)

LocalNames ==
    {"lat_geocentric", "jd_dyn", "lat_ref", "lon_ref", "ht_ref", "v_e", "ra_east",
     "v_ref_vect", "v_ref_corr", "v_ref_nocorr", "v_init_corr", "v_g", "ra_corr",
     "dec_corr", "lst_ref", "zc", "zg", "ra_g", "dec_g", "eci_ref", "L_g", "B_g",
     "earth_pos", "earth_vel", "meteor_pos", "v_h", "v_h_mag", "L_h", "B_h", "met_v_h",
     "la_sun", "a", "n", "T", "incl", "e_vect", "eccentricity", "q", "Q", "node", "peri",
     "pi", "true_anomaly", "eccentric_anomaly", "mean_anomaly", "dt_perihelion",
     "last_perihelion", "Tj", "epsilon", "h_vect", "k_vect", "n_vect"}

\* No local is bound yet; the parameter eci_ref is bound at the call
NoLocals == [k \in LocalNames |-> None]

\* Lines 396-422: reference geometry, Earth rotation speed and direction of east
ReferenceGeometry(a) ==
    LET eci_x == a.eci_ref[1]
        eci_y == a.eci_ref[2]
        eci_z == a.eci_ref[3]
        lat_geocentric == FArctan2(eci_z, FSqrt(FAdd(FMul(eci_x, eci_x), FMul(eci_y, eci_y))))
        geo == cartesian2Geo(a.jd_ref, eci_x, eci_y, eci_z)
        v_e == FDiv(FMul(FMul(Fin(TWO_PI), vectMag(a.eci_ref)), FCos(lat_geocentric)),
                    Fin(SIDEREAL_DAY_S))
        east == altAz2RADec(Fin(HALF_PI), Fin(0), a.jd_ref, geo.lat, geo.lon)
    IN  [ eci_ref        |-> a.eci_ref,
          lat_geocentric |-> lat_geocentric,
          jd_dyn         |-> jd2DynamicalTimeJD(a.jd_ref),
          lat_ref        |-> geo.lat,
          lon_ref        |-> geo.lon,
          ht_ref         |-> geo.ht,
          v_e            |-> v_e,
          ra_east        |-> east.ra ]

\* Lines 426-435: the reference velocity vector
RefVelocityVect(a) ==
    IF a.reference_init THEN VScale(a.v_init, a.radiant_eci) ELSE VScale(a.v_avg, a.radiant_eci)

\* The velocity of the Earth's rotation towards east, v_e*(cos(ra_east), sin(ra_east), 0)
EastRotation(v_e, ra_east) == <<FMul(v_e, FCos(ra_east)), FMul(v_e, FSin(ra_east)), Fin(0)>>

\* Faulty variant: the rotation speed is taken off the z component as well
StationsFixedCorrectionOfAllComponents(v_ref_vect, v_e, ra_east) ==
    LET d == EastRotation(v_e, ra_east)
    IN  <<FSub(v_ref_vect[1], d[1]), FSub(v_ref_vect[2], d[2]), FSub(v_ref_vect[3], v_e)>>

\* Lines 461-466: the reference vector with the rotation of the Earth removed
StationsFixedCorrection(v_ref_vect, v_e, ra_east) ==
    LET d == EastRotation(v_e, ra_east)
    IN  <<FSub(v_ref_vect[1], d[1]), FSub(v_ref_vect[2], d[2]), v_ref_vect[3]>>

\* Faulty variant: the eastward velocity is added with sine and cosine swapped
NoRotationVectSwapped(v_ref_vect, v_e, ra_east) ==
    LET d == EastRotation(v_e, ra_east)
    IN  <<FAdd(v_ref_vect[1], d[2]), FAdd(v_ref_vect[2], d[1]), v_ref_vect[3]>>

\* Lines 487-492: the reference vector with the rotation of the Earth added
NoRotationVect(v_ref_vect, v_e, ra_east) ==
    LET d == EastRotation(v_e, ra_east)
    IN  <<FAdd(v_ref_vect[1], d[1]), FAdd(v_ref_vect[2], d[2]), v_ref_vect[3]>>

\* Faulty variant: with moving stations the average velocity is always used
MovingStationsVectOfAverage(a) == VScale(a.v_avg, a.radiant_eci)

\* Lines 474-478: with moving stations the vector is left as it is
MovingStationsVect(a) ==
    IF a.reference_init THEN VScale(a.v_init, a.radiant_eci) ELSE VScale(a.v_avg, a.radiant_eci)

\* Lines 425-499, the locals assigned
RotationLocals(a, l) ==
    LET v_ref_vect == RefVelocityVect(a)
    IN  IF a.stations_fixed
        THEN [ v_ref_vect |-> v_ref_vect,
               v_ref_corr |-> StationsFixedCorrection(v_ref_vect, l.v_e, l.ra_east) ]
        ELSE [ v_ref_vect   |-> v_ref_vect,
               v_ref_corr   |-> MovingStationsVect(a),
               v_ref_nocorr |-> NoRotationVect(v_ref_vect, l.v_e, l.ra_east) ]

\* Faulty variant: the ground-fixed fields are assigned for moving stations only
RotationAttrsMovingOnly(a, l, v_ref_nocorr) ==
    IF a.stations_fixed
    THEN <<>>
    ELSE LET rd == eci2RaDec(vectNorm(v_ref_nocorr))
             aa == raDec2AltAz(rd.ra, rd.dec, a.jd_ref, l.lat_ref, l.lon_ref)
             v_init_norot == vectMag(v_ref_nocorr)
         IN  [ ra_norot                 |-> rd.ra,
               dec_norot                |-> rd.dec,
               azimuth_apparent_norot   |-> aa.azim,
               elevation_apparent_norot |-> aa.alt,
               v_init_norot             |-> v_init_norot,
               v_avg_norot              |-> FAdd(FSub(v_init_norot, a.v_init), a.v_avg) ]

\* Lines 441-499, the attributes of orb assigned
RotationAttrs(a, l, v_ref_nocorr) ==
    IF a.stations_fixed
    THEN LET rd == eci2RaDec(a.radiant_eci)
             aa == raDec2AltAz(rd.ra, rd.dec, a.jd_ref, l.lat_ref, l.lon_ref)
         IN  [ ra_norot                 |-> rd.ra,
               dec_norot                |-> rd.dec,
               azimuth_apparent_norot   |-> aa.azim,
               elevation_apparent_norot |-> aa.alt,
               v_avg_norot              |-> a.v_avg,
               v_init_norot             |-> a.v_init ]
    ELSE LET rd == eci2RaDec(vectNorm(v_ref_nocorr))
             aa == raDec2AltAz(rd.ra, rd.dec, a.jd_ref, l.lat_ref, l.lon_ref)
             v_init_norot == vectMag(v_ref_nocorr)
         IN  [ ra_norot                 |-> rd.ra,
               dec_norot                |-> rd.dec,
               azimuth_apparent_norot   |-> aa.azim,
               elevation_apparent_norot |-> aa.alt,
               v_init_norot             |-> v_init_norot,
               v_avg_norot              |-> FAdd(FSub(v_init_norot, a.v_init), a.v_avg) ]

\* Faulty variant: without the rotation correction the velocity of the reference
\* vector is taken, the average one when the reference is the average point
CorrectedInitVelocityOfReference(a, v_ref_corr) ==
    IF a.reference_init
    THEN (IF a.rotation_correction THEN vectMag(v_ref_corr) ELSE a.v_init)
    ELSE (IF a.rotation_correction
          THEN FSub(FAdd(vectMag(v_ref_corr), a.v_init), a.v_avg)
          ELSE a.v_avg)

\* Faulty variant: the difference of initial and average velocity is not added
CorrectedInitVelocityWithoutDifference(a, v_ref_corr) ==
    IF a.reference_init
    THEN (IF a.rotation_correction THEN vectMag(v_ref_corr) ELSE a.v_init)
    ELSE (IF a.rotation_correction
          THEN vectMag(v_ref_corr)
          ELSE a.v_init)

\* Lines 513-537: the initial velocity corrected for the rotation of the Earth
CorrectedInitVelocity(a, v_ref_corr) ==
    IF a.reference_init
    THEN (IF a.rotation_correction THEN vectMag(v_ref_corr) ELSE a.v_init)
    ELSE (IF a.rotation_correction
          THEN FSub(FAdd(vectMag(v_ref_corr), a.v_init), a.v_avg)
          ELSE a.v_init)

\* Faulty variant: the velocity at infinity is not assigned before the gate
ApparentAttrsWithoutVInf(a, l, v_init_corr) ==
    LET rd == eci2RaDec(a.radiant_eci)
        aa == raDec2AltAz(rd.ra, rd.dec, a.jd_ref, l.lat_ref, l.lon_ref)
    IN  [ ra                 |-> rd.ra,
          dec                |-> rd.dec,
          v_init             |-> a.v_init,
          v_avg              |-> a.v_avg,
          azimuth_apparent   |-> aa.azim,
          elevation_apparent |-> aa.alt,
          jd_ref             |-> a.jd_ref,
          lon_ref            |-> l.lon_ref,
          lat_ref            |-> l.lat_ref,
          ht_ref             |-> l.ht_ref,
          lat_geocentric     |-> l.lat_geocentric ]

\* Faulty variant: the apparent radiant is taken from the corrected vector
ApparentAttrsOfCorrected(a, l, v_init_corr) ==
    LET rd == eci2RaDec(vectNorm(l.v_ref_corr))
        aa == raDec2AltAz(rd.ra, rd.dec, a.jd_ref, l.lat_ref, l.lon_ref)
    IN  [ ra                 |-> rd.ra,
          dec                |-> rd.dec,
          v_init             |-> a.v_init,
          v_avg              |-> a.v_avg,
          azimuth_apparent   |-> aa.azim,
          elevation_apparent |-> aa.alt,
          jd_ref             |-> a.jd_ref,
          lon_ref            |-> l.lon_ref,
          lat_ref            |-> l.lat_ref,
          ht_ref             |-> l.ht_ref,
          lat_geocentric     |-> l.lat_geocentric,
          v_inf              |-> v_init_corr ]

\* Lines 541-558, the attributes of orb assigned
ApparentAttrs(a, l, v_init_corr) ==
    LET rd == eci2RaDec(a.radiant_eci)
        aa == raDec2AltAz(rd.ra, rd.dec, a.jd_ref, l.lat_ref, l.lon_ref)
    IN  [ ra                 |-> rd.ra,
          dec                |-> rd.dec,
          v_init             |-> a.v_init,
          v_avg              |-> a.v_avg,
          azimuth_apparent   |-> aa.azim,
          elevation_apparent |-> aa.alt,
          jd_ref             |-> a.jd_ref,
          lon_ref            |-> l.lon_ref,
          lat_ref            |-> l.lat_ref,
          ht_ref             |-> l.ht_ref,
          lat_geocentric     |-> l.lat_geocentric,
          v_inf              |-> v_init_corr ]

\* Square of the escape velocity at the reference position, lines 562 and 568
EscapeVelocitySq(eci_ref) == FDiv(Fin(EARTH_2GM), vectMag(eci_ref))

\* Faulty variant of the gate: a velocity equal to the escape velocity passes
ExceedsOrEqualsEscapeVelocity(v_init_corr, eci_ref) ==
    ~FLt(FMul(v_init_corr, v_init_corr), EscapeVelocitySq(eci_ref))

\* Line 562: the velocity of the meteor is larger than the escape velocity
ExceedsEscapeVelocity(v_init_corr, eci_ref) ==
    FGt(FMul(v_init_corr, v_init_corr), EscapeVelocitySq(eci_ref))

\* Faulty variant: the escape velocity is not taken off
GeocentricVelocityWithoutEscape(v_init_corr, eci_ref) ==
    FSqrt(FMul(v_init_corr, v_init_corr))

\* Line 568: geocentric velocity
GeocentricVelocity(v_init_corr, eci_ref) ==
    FSqrt(FSub(FMul(v_init_corr, v_init_corr), EscapeVelocitySq(eci_ref)))

\* Lines 579-580: the apparent zenith angle
ZenithAngle(ra_corr, dec_corr, lat_geocentric, lst_ref) ==
    FArccos(FAdd(FMul(FSin(dec_corr), FSin(lat_geocentric)),
                 FMul(FMul(FCos(dec_corr), FCos(lat_geocentric)), FCos(FSub(lst_ref, ra_corr)))))

\* Lines 583-586: zenith distance of the geocentric radiant
GeocentricZenithDistance(zc, v_init_corr, v_g) ==
    FAdd(zc, FAbs(FMul(Fin(2 * Scale),
                       FArctan2(FMul(FSub(v_init_corr, v_g), FTan(FDiv(zc, Fin(2 * Scale)))),
                                FAdd(v_init_corr, v_g)))))

\* Faulty variant: with moving stations the radiant is taken from the
\* derotated vector
ZenithAttractionOfDerotated(a, l) ==
    LET corr    == eci2RaDec(vectNorm(IF a.stations_fixed THEN l.v_ref_corr ELSE l.v_ref_nocorr))
        lst_ref == Radians(jd2LST(a.jd_ref, Degrees(l.lon_ref)))
    IN  [ v_g      |-> GeocentricVelocity(l.v_init_corr, l.eci_ref),
          ra_corr  |-> corr.ra,
          dec_corr |-> corr.dec,
          lst_ref  |-> lst_ref,
          zc       |-> ZenithAngle(corr.ra, corr.dec, l.lat_geocentric, lst_ref) ]

\* Lines 568-586: geocentric velocity and zenith attraction
ZenithAttraction(a, l) ==
    LET corr    == eci2RaDec(vectNorm(l.v_ref_corr))
        lst_ref == Radians(jd2LST(a.jd_ref, Degrees(l.lon_ref)))
    IN  [ v_g      |-> GeocentricVelocity(l.v_init_corr, l.eci_ref),
          ra_corr  |-> corr.ra,
          dec_corr |-> corr.dec,
          lst_ref  |-> lst_ref,
          zc       |-> ZenithAngle(corr.ra, corr.dec, l.lat_geocentric, lst_ref) ]

\* Lines 596-621: geocentric radiant and reference position, precessed to J2000
GeocentricRadiant(a, l, zg) ==
    LET azimuth_corr == raDec2AltAz(l.ra_corr, l.dec_corr, a.jd_ref, l.lat_geocentric,
                                    l.lon_ref).azim
        g0  == altAz2RADec(azimuth_corr, FSub(Fin(HALF_PI), zg), a.jd_ref,
                           l.lat_geocentric, l.lon_ref)
        sph == cartesianToSpherical(l.eci_ref[1], l.eci_ref[2], l.eci_ref[3])
        ej  == equatorialCoordPrecession(a.jd_ref, Fin(J2000_JD_days), sph.phi, sph.theta)
        g   == equatorialCoordPrecession(a.jd_ref, Fin(J2000_JD_days), g0.ra, g0.dec)
        ecl == raDec2Ecliptic(Fin(J2000_JD_days), g.ra, g.dec)
    IN  [ zg      |-> zg,
          ra_g    |-> g.ra,
          dec_g   |-> g.dec,
          eci_ref |-> sphericalToCartesian(sph.r, ej.dec, ej.ra),
          L_g     |-> ecl.L,
          B_g     |-> ecl.B ]

\* Lines 630-676: heliocentric position and velocity of the meteoroid, with
\* the kernel k opened at line 625
HeliocentricTransform(l, k) ==
    LET earth        == calcEarthRectangularCoordJPL(l.jd_dyn, k)
        earth_pos_eq == rotateVector(earth.pos, Fin(J2000_OBLIQUITY))
        meteor_eq    == VAdd(earth_pos_eq, VDiv(l.eci_ref, Fin(M_PER_KM)))
        v_h          == VAdd(earth.vel,
                             eclipticToRectangularVelocityVect(l.L_g, l.B_g,
                                                               FDiv(l.v_g, Fin(M_PER_KM))))
        sw           == correctedEclipticCoord(l.L_g, l.B_g, FDiv(l.v_g, Fin(M_PER_KM)), earth.vel)
    IN  [ earth_pos  |-> earth.pos,
          earth_vel  |-> earth.vel,
          meteor_pos |-> rotateVector(meteor_eq, FNeg(Fin(J2000_OBLIQUITY))),
          v_h        |-> v_h,
          v_h_mag    |-> vectMag(v_h),
          L_h        |-> sw.L_h,
          B_h        |-> sw.B_h,
          met_v_h    |-> sw.met_v_h,
          la_sun     |-> jd2SolLonJPL(l.jd_dyn, k) ]

Cube(x) == FMul(FMul(x, x), x)

\* Faulty variant: the perihelion distance with the sign of e slipped
PerihelionDistanceSignSlip(a, eccentricity, e_vect, meteor_pos) ==
    IF FEq(eccentricity, Fin(Scale))
    THEN FDiv(FAdd(vectMag(meteor_pos), Dot(e_vect, meteor_pos)),
              FAdd(Fin(Scale), vectMag(e_vect)))
    ELSE FMul(a, FAdd(Fin(Scale), eccentricity))

\* Faulty variant: no branch for the parabola
PerihelionDistanceFromAxis(a, eccentricity, e_vect, meteor_pos) ==
    FMul(a, FSub(Fin(Scale), eccentricity))

\* Lines 707-711: perihelion distance
PerihelionDistance(a, eccentricity, e_vect, meteor_pos) ==
    IF FEq(eccentricity, Fin(Scale))
    THEN FDiv(FAdd(vectMag(meteor_pos), Dot(e_vect, meteor_pos)),
              FAdd(Fin(Scale), vectMag(e_vect)))
    ELSE FMul(a, FSub(Fin(Scale), eccentricity))

\* Line 714: aphelion distance
AphelionDistance(a, eccentricity) == FMul(a, FAdd(Fin(Scale), eccentricity))

\* Faulty variant: the angle is not reduced
NoMod2Pi(x) == x

\* x % (2*np.pi), lines 729, 742, 747, 755 and 766
Mod2Pi(x) == FMod(x, Fin(TWO_PI))

\* Lines 724-729: longitude of the ascending node
AscendingNode(n_vect) ==
    Mod2Pi(IF FEq(vectMag(n_vect), Fin(0)) THEN Fin(0) ELSE FArctan2(n_vect[2], n_vect[1]))

\* Faulty variant: no fallback for a node vector of zero magnitude
ArgumentOfPerihelionWithoutFallback(n_vect, e_vect) ==
    Mod2Pi(LET peri == FArccos(FDiv(Dot(n_vect, e_vect),
                                    FMul(vectMag(n_vect), vectMag(e_vect))))
           IN  IF FLt(e_vect[3], Fin(0)) THEN FSub(Fin(TWO_PI), peri) ELSE peri)

\* Lines 733-742: argument of perihelion
ArgumentOfPerihelion(n_vect, e_vect) ==
    Mod2Pi(IF FNe(vectMag(n_vect), Fin(0))
           THEN LET peri == FArccos(FDiv(Dot(n_vect, e_vect),
                                         FMul(vectMag(n_vect), vectMag(e_vect))))
                IN  IF FLt(e_vect[3], Fin(0)) THEN FSub(Fin(TWO_PI), peri) ELSE peri
           ELSE FArccos(FDiv(e_vect[1], vectMag(e_vect))))

\* Lines 751-755: true anomaly
TrueAnomaly(e_vect, meteor_pos, v_h) ==
    LET ta == FArccos(FDiv(Dot(e_vect, meteor_pos), FMul(vectMag(e_vect), vectMag(meteor_pos))))
    IN  Mod2Pi(IF FLt(Dot(meteor_pos, v_h), Fin(0)) THEN FSub(Fin(TWO_PI), ta) ELSE ta)

\* Lines 761-762: eccentric anomaly
EccentricAnomaly(eccentricity, true_anomaly) ==
    FArctan2(FMul(FSqrt(FSub(Fin(Scale), FMul(eccentricity, eccentricity))), FSin(true_anomaly)),
             FAdd(eccentricity, FCos(true_anomaly)))

\* Lines 765-766: mean anomaly
MeanAnomaly(eccentricity, eccentric_anomaly) ==
    Mod2Pi(FSub(eccentric_anomaly, FMul(eccentricity, FSin(eccentric_anomaly))))

\* Line 772: the test that guards the conversion of the perihelion date
PerihelionDateWanted(dt_perihelion) == ~IsNaN(dt_perihelion)

\* Faulty variant: the inclination is left out of Tisserand's parameter
TisserandWithoutInclination(a, eccentricity, incl) ==
    FAdd(FMul(Fin(2 * Scale),
              FSqrt(FDiv(FMul(FSub(Fin(Scale), FMul(eccentricity, eccentricity)), a),
                         Fin(JUPITER_A)))),
         FDiv(Fin(JUPITER_A), a))

\* Line 782: Tisserand's parameter with respect to Jupiter
Tisserand(a, eccentricity, incl) ==
    FAdd(FMul(FMul(Fin(2 * Scale),
                   FSqrt(FDiv(FMul(FSub(Fin(Scale), FMul(eccentricity, eccentricity)), a),
                              Fin(JUPITER_A)))),
              FCos(incl)),
         FDiv(Fin(JUPITER_A), a))

\* Line 682: specific orbital energy
OrbitalEnergy(v_h, meteor_pos) ==
    FSub(FDiv(FMul(vectMag(v_h), vectMag(v_h)), Fin(2 * Scale)),
         FDiv(Fin(SUN_MU), vectMag(meteor_pos)))

\* Line 685: semi-major axis in AU
SemiMajorAxis(epsilon) == FDiv(FNeg(Fin(SUN_MU)), FMul(FMul(Fin(2 * Scale), epsilon), Fin(AU)))

\* Faulty variant: the mean motion from a itself, not from |a|
MeanMotionOfSignedAxis(a) ==
    FMul(FSqrt(FDiv(Fin(G_SUN_MASS), Cube(FMul(FMul(a, Fin(AU)), Fin(M_PER_KM))))),
         Fin(DAY_S))

\* Line 688: mean motion in rad/day
MeanMotion(a) ==
    FMul(FSqrt(FDiv(Fin(G_SUN_MASS), Cube(FMul(FMul(FAbs(a), Fin(AU)), Fin(M_PER_KM))))),
         Fin(DAY_S))

\* Line 692: orbital period in years
OrbitalPeriod(a) ==
    FDiv(FMul(Fin(TWO_PI), FSqrt(FDiv(Cube(FMul(a, Fin(AU))), Fin(SUN_MU)))),
         FMul(Fin(DAY_S), Fin(SIDEREAL_YEAR)))

\* Lines 681-692
KeplerEnergy(l) ==
    LET epsilon == OrbitalEnergy(l.v_h, l.meteor_pos)
        a       == SemiMajorAxis(epsilon)
    IN  [ epsilon |-> epsilon, a |-> a, n |-> MeanMotion(a), T |-> OrbitalPeriod(a) ]

\* Line 703: eccentricity vector
EccentricityVector(v_h, h_vect, meteor_pos) ==
    VSub(VDiv(Cross(v_h, h_vect), Fin(SUN_MU)), vectNorm(meteor_pos))

\* Lines 695-721: angular momentum, inclination, eccentricity, node vector
KeplerVectors(l) ==
    LET h_vect == Cross(l.meteor_pos, l.v_h)
        e_vect == EccentricityVector(l.v_h, h_vect, l.meteor_pos)
        k_vect == Vec(0, 0, Scale)
    IN  [ h_vect       |-> h_vect,
          incl         |-> FArccos(FDiv(h_vect[3], vectMag(h_vect))),
          e_vect       |-> e_vect,
          eccentricity |-> vectMag(e_vect),
          k_vect       |-> k_vect,
          n_vect       |-> Cross(k_vect, h_vect) ]

\* Lines 707-747: perihelion and aphelion distance, node, argument and
\* longitude of perihelion
KeplerElements(l) ==
    LET node == AscendingNode(l.n_vect)
        peri == ArgumentOfPerihelion(l.n_vect, l.e_vect)
    IN  [ q    |-> PerihelionDistance(l.a, l.eccentricity, l.e_vect, l.meteor_pos),
          Q    |-> AphelionDistance(l.a, l.eccentricity),
          node |-> node,
          peri |-> peri,
          pi   |-> Mod2Pi(FAdd(node, peri)) ]

\* Line 769: days since the last perihelion passage
DaysSincePerihelion(mean_anomaly, a) == FDiv(FMul(mean_anomaly, FPow15(a)), Fin(GAUSS_K))

\* Lines 750-769: the anomalies and the time since perihelion
KeplerAnomalies(l) ==
    LET true_anomaly      == TrueAnomaly(l.e_vect, l.meteor_pos, l.v_h)
        eccentric_anomaly == EccentricAnomaly(l.eccentricity, true_anomaly)
        mean_anomaly      == MeanAnomaly(l.eccentricity, eccentric_anomaly)
    IN  [ true_anomaly      |-> true_anomaly,
          eccentric_anomaly |-> eccentric_anomaly,
          mean_anomaly      |-> mean_anomaly,
          dt_perihelion     |-> DaysSincePerihelion(mean_anomaly, l.a) ]

\* Faulty variant: the aphelion distance is not assigned
ResultAttrsWithoutAphelion(l) ==
    [ lst_ref |-> l.lst_ref,
      jd_dyn  |-> l.jd_dyn,
      v_g     |-> l.v_g,
      ra_g    |-> l.ra_g,
      dec_g   |-> l.dec_g,
      meteor_pos |-> l.meteor_pos,
      L_g     |-> l.L_g,
      B_g     |-> l.B_g,
      v_h_x   |-> l.met_v_h[1],
      v_h_y   |-> l.met_v_h[2],
      v_h_z   |-> l.met_v_h[3],
      L_h     |-> l.L_h,
      B_h     |-> l.B_h,
      zc      |-> l.zc,
      zg      |-> l.zg,
      v_h     |-> FMul(l.v_h_mag, Fin(M_PER_KM)),
      la_sun  |-> l.la_sun,
      a       |-> l.a,
      e       |-> l.eccentricity,
      i       |-> l.incl,
      peri    |-> l.peri,
      node    |-> l.node,
      pi      |-> l.pi,
      q       |-> l.q,
      true_anomaly |-> l.true_anomaly,
      eccentric_anomaly |-> l.eccentric_anomaly,
      mean_anomaly |-> l.mean_anomaly,
      last_perihelion |-> l.last_perihelion,
      n       |-> l.n,
      T       |-> l.T,
      Tj      |-> l.Tj ]

\* Lines 787-823, the attributes of orb assigned
ResultAttrs(l) ==
    [ lst_ref |-> l.lst_ref,
      jd_dyn  |-> l.jd_dyn,
      v_g     |-> l.v_g,
      ra_g    |-> l.ra_g,
      dec_g   |-> l.dec_g,
      meteor_pos |-> l.meteor_pos,
      L_g     |-> l.L_g,
      B_g     |-> l.B_g,
      v_h_x   |-> l.met_v_h[1],
      v_h_y   |-> l.met_v_h[2],
      v_h_z   |-> l.met_v_h[3],
      L_h     |-> l.L_h,
      B_h     |-> l.B_h,
      zc      |-> l.zc,
      zg      |-> l.zg,
      v_h     |-> FMul(l.v_h_mag, Fin(M_PER_KM)),
      la_sun  |-> l.la_sun,
      a       |-> l.a,
      e       |-> l.eccentricity,
      i       |-> l.incl,
      peri    |-> l.peri,
      node    |-> l.node,
      pi      |-> l.pi,
      q       |-> l.q,
      Q       |-> l.Q,
      true_anomaly |-> l.true_anomaly,
      eccentric_anomaly |-> l.eccentric_anomaly,
      mean_anomaly |-> l.mean_anomaly,
      last_perihelion |-> l.last_perihelion,
      n       |-> l.n,
      T       |-> l.T,
      Tj      |-> l.Tj ]

(***************************************************************************)
(* Orbit.__repr__(self, uncertainties=None, v_init_ht=None)                *)
(*                                                                         *)
(* The report is a sequence of lines.  A formatted line is the record of   *)
(* its label, the attribute it renders, the value after unit conversion,   *)
(* the uncertainty suffix (the empty tuple for the empty string) and, on   *)
(* the two Vinit lines, the height remark.  The uncertainties argument is  *)
(* [given |-> FALSE] for None, else the attributes the object carries.     *)
(***************************************************************************)

NoUncertainties == [given |-> FALSE, attr |-> <<>>]

\* An uncertainties object carrying the attributes names, each a number
UncertaintiesWith(names) == [given |-> TRUE, attr |-> [k \in names |-> Fin(2)]]

\* A line of the report: its label, the attribute formatted, the conversion
\* applied ("deg": np.degrees, "km": /1000, "raw": none) and the std_name
\* handed to _uncer ("" where the line has no uncertainty)
ReportLine(label, field, conv, std) ==
    [label |-> label, field |-> field, conv |-> conv, std |-> std]

\* Lines 214-215
HeaderLines ==
    << ReportLine("JD dynamic", "jd_dyn", "raw", ""),
       ReportLine("LST apparent", "lst_ref", "deg", "") >>

\* Lines 220-239
ApparentLines ==
    << ReportLine("R.A.", "ra", "deg", "ra"),
       ReportLine("Dec", "dec", "deg", "dec"),
       ReportLine("Azimuth", "azimuth_apparent", "deg", "azimuth_apparent"),
       ReportLine("Elevation", "elevation_apparent", "deg", "elevation_apparent"),
       ReportLine("Vavg", "v_avg", "km", "v_avg"),
       ReportLine("Vinit", "v_init", "km", "v_init") >>

\* Lines 247-259
GroundFixedLines ==
    << ReportLine("R.A.", "ra_norot", "deg", "ra"),
       ReportLine("Dec", "dec_norot", "deg", "dec"),
       ReportLine("Azimuth", "azimuth_apparent_norot", "deg", "azimuth_apparent"),
       ReportLine("Elevation", "elevation_apparent_norot", "deg", "elevation_apparent"),
       ReportLine("Vavg", "v_avg_norot", "km", "v_avg"),
       ReportLine("Vinit", "v_init_norot", "km", "v_init") >>

\* Lines 269-296
GeocentricLines ==
    << ReportLine("R.A.", "ra_g", "deg", "ra_g"),
       ReportLine("Dec", "dec_g", "deg", "dec_g"),
       ReportLine("Vg", "v_g", "km", "v_g"),
       ReportLine("Vinf", "v_inf", "km", "v_inf"),
       ReportLine("Zc", "zc", "deg", "zc"),
       ReportLine("Zg", "zg", "deg", "zg"),
       ReportLine("Lg", "L_g", "deg", "L_g"),
       ReportLine("Bg", "B_g", "deg", "B_g"),
       ReportLine("Vh", "v_h", "km", "v_h"),
       ReportLine("Lh", "L_h", "deg", "L_h"),
       ReportLine("Bh", "B_h", "deg", "B_h"),
       ReportLine("Vh_x", "v_h_x", "raw", "v_h_x"),
       ReportLine("Vh_y", "v_h_y", "raw", "v_h_y"),
       ReportLine("Vh_z", "v_h_z", "raw", "v_h_z") >>

\* Lines 297-318
OrbitLines ==
    << ReportLine("La Sun", "la_sun", "deg", "la_sun"),
       ReportLine("a", "a", "raw", "a"),
       ReportLine("e", "e", "raw", "e"),
       ReportLine("i", "i", "deg", "i"),
       ReportLine("peri", "peri", "deg", "peri"),
       ReportLine("node", "node", "deg", "node"),
       ReportLine("Pi", "pi", "deg", "pi"),
       ReportLine("q", "q", "raw", "q"),
       ReportLine("f", "true_anomaly", "deg", "true_anomaly"),
       ReportLine("M", "mean_anomaly", "deg", "mean_anomaly"),
       ReportLine("Q", "Q", "raw", "Q"),
       ReportLine("n", "n", "deg", "n"),
       ReportLine("T", "T", "raw", "T") >>

\* Line 327
TisserandLines == << ReportLine("Tj", "Tj", "raw", "Tj") >>

\* The unit conversion of a line: np.degrees(x), x/1000 or x itself
Convert(conv, x) ==
    CASE conv = "deg" -> Degrees(x)
      [] conv = "km"  -> FDiv(x, Fin(M_PER_KM))
      [] OTHER        -> x

\* np.degrees(None), None/1000 and '{:>9.5f}'.format(None) raise TypeError;
\* every float, NaN and the infinities included, is formatted
Formats(x) == ~IsNone(x)

\* Faulty variant of _uncer: a suffix for every field once uncertainties are given
uncerWithoutHasattr(uncertainties, std_name, conv) ==
    IF uncertainties.given
    THEN <<"+/-", IF std_name \in DOMAIN uncertainties.attr
                  THEN Convert(conv, uncertainties.attr[std_name]) ELSE NaN>>
    ELSE <<>>

\* Lines 183-206, _uncer(str_format, std_name, multi, deg)
uncer(uncertainties, std_name, conv) ==
    IF uncertainties.given /\ std_name \in DOMAIN uncertainties.attr
    THEN <<"+/-", Convert(conv, uncertainties.attr[std_name])>>
    ELSE <<>>

\* Lines 233-236, v_init_ht_str
HeightRemark(v_init_ht) ==
    IF ~IsNone(v_init_ht) THEN <<"average above", v_init_ht>> ELSE <<>>

\* One line formatted: out_str += "...".format(...)
FormatLine(self, uncertainties, v_init_ht, ln) ==
    [ label  |-> ln.label,
      field  |-> ln.field,
      value  |-> Convert(ln.conv, self[ln.field]),
      suffix |-> IF ln.std = "" THEN <<>> ELSE uncer(uncertainties, ln.std, ln.conv),
      remark |-> IF ln.label = "Vinit" THEN HeightRemark(v_init_ht) ELSE <<>> ]

FormatLines(self, uncertainties, v_init_ht, lns) ==
    [k \in DOMAIN lns |-> FormatLine(self, uncertainties, v_init_ht, lns[k])]

\* Lines 320-325: the date of the last perihelion, or the text NaN
LastPerihelionLines(self, uncertainties) ==
    IF ~IsNone(self.last_perihelion)
    THEN << [ label  |-> "Last perihelion JD",
              field  |-> "last_perihelion",
              value  |-> datetime2JD(self.last_perihelion),
              suffix |-> uncer(uncertainties, "last_perihelion", "raw"),
              remark |-> self.last_perihelion ] >>
    ELSE << [ label  |-> "Last perihelion JD",
              field  |-> "last_perihelion",
              value  |-> <<"text", "NaN">>,
              suffix |-> <<>>,
              remark |-> <<>> ] >>

\* Lines 330-342: the shower association
ShowerLines(self) ==
    LET shower_obj  == associateShower(self.la_sun, self.L_g, self.B_g, self.v_g)
        shower_no   == IF IsNone(shower_obj) THEN -1 ELSE shower_obj[2]
        shower_code == IF IsNone(shower_obj) THEN "..." ELSE shower_obj[3]
    IN  << [ label |-> "IAU No.", field |-> "", value |-> <<"int", shower_no>>,
             suffix |-> <<>>, remark |-> <<>> ],
           [ label |-> "IAU code", field |-> "", value |-> <<"text", shower_code>>,
             suffix |-> <<>>, remark |-> <<>> ] >>

\* Lines 213 and 267: whether the orbit was calculated
OrbitCalculated(self) == ~IsNone(self.ra_g)

\* Faulty variant: the shower is looked up for every Orbit printed
ShowerCallsUnguarded(self) == << <<self.la_sun, self.L_g, self.B_g, self.v_g>> >>

\* Lines 267 and 333: the calls of associateShower that __repr__ makes, each
\* with its arguments in order
ShowerCalls(self) ==
    IF OrbitCalculated(self)
    THEN << <<self.la_sun, self.L_g, self.B_g, self.v_g>> >>
    ELSE <<>>

\* Faulty variant: the geocentric and orbit sections are formatted unguarded
LinesFormattedUnguarded(self) ==
    HeaderLines \o ApparentLines \o GroundFixedLines \o GeocentricLines
        \o OrbitLines \o TisserandLines

\* The attribute lines __repr__ formats for self, in order
LinesFormatted(self) ==
    IF OrbitCalculated(self)
    THEN HeaderLines \o ApparentLines \o GroundFixedLines \o GeocentricLines
            \o OrbitLines \o TisserandLines
    ELSE ApparentLines \o GroundFixedLines

\* __repr__ raises: a line it formats dereferences an attribute that is None
ReprRaises(self) ==
    \E k \in DOMAIN LinesFormatted(self) : ~Formats(self[LinesFormatted(self)[k].field])

\* Lines 209-345: the report returned
ReprText(self, uncertainties, v_init_ht) ==
    LET F(lns) == FormatLines(self, uncertainties, v_init_ht, lns)
    IN  IF OrbitCalculated(self)
        THEN F(HeaderLines) \o F(ApparentLines) \o F(GroundFixedLines)
                \o F(GeocentricLines) \o F(OrbitLines)
                \o LastPerihelionLines(self, uncertainties)
                \o F(TisserandLines) \o ShowerLines(self)
        ELSE F(ApparentLines) \o F(GroundFixedLines)

(***************************************************************************)
(* The state: one caller that constructs Orbit objects, invokes calcOrbit  *)
(* and prints what it holds.                                               *)
(***************************************************************************)

VARIABLES
    pc,      \* where the caller is: "idle", inside calcOrbit, or holding an Orbit
    args,    \* the arguments of the running calcOrbit invocation
    loc,     \* its local variables
    orb,     \* the Orbit object under construction or held by the caller
    ephem,   \* the configured ephemeris file: 0 when it is missing, else a kernel
    calls,   \* the collaborator calls made by the running invocation
    out,     \* the last __repr__ invocation and what it gave
    frames,  \* with several callers: the call frame of calcOrbit in each thread
    heap     \* with several callers: the Orbit objects, by identity

vars == <<pc, args, loc, orb, ephem, calls, out, frames, heap>>

\* Largest speed (in whole metres per second) given as v_init
MaxSpeed == 6

Radiants ==
    {Vec(100, 0, 0), Vec(0, 100, 0), Vec(0, 0, 100), Vec(60, 0, -80), Vec(71, 71, 0),
     Vec(0, 0, 0), Vec(0, 200, 0)}

InitSpeeds == {Fin(s * Scale) : s \in 3 .. MaxSpeed}

AvgSpeeds == {Fin(3 * Scale), Fin(5 * Scale)}

ReferencePositions ==
    {Vec(400, 0, 0), Vec(0, 0, 400), Vec(240, 0, 320), Vec(240, 320, 0), Vec(0, 0, 0)}

JulianDates == {Fin(0), Fin(25)}

ArgSets ==
    [ radiant_eci : Radiants, v_init : InitSpeeds, v_avg : AvgSpeeds,
      eci_ref : ReferencePositions, jd_ref : JulianDates,
      stations_fixed : BOOLEAN, reference_init : BOOLEAN, rotation_correction : BOOLEAN ]

\* The uncertainties arguments given to __repr__: None, an object without
\* attributes, one with uncertainties of rotating-frame and orbit fields, and
\* one with uncertainties of ground-fixed fields
UncertaintySets ==
    { NoUncertainties,
      UncertaintiesWith({}),
      UncertaintiesWith({"ra", "v_init", "a", "last_perihelion"}),
      UncertaintiesWith({"dec_norot", "v_avg_norot", "e"}) }

HeightSets == {None, Fin(90 * Scale)}

NoArgs ==
    [ radiant_eci |-> None, v_init |-> None, v_avg |-> None, eci_ref |-> None, jd_ref |-> None,
      stations_fixed |-> FALSE, reference_init |-> FALSE, rotation_correction |-> FALSE ]

NoCalls == [ SPK_open |-> 0, earth_lookup |-> 0, sol_lon |-> 0, jd2Date |-> <<>> ]

NoOutput ==
    [ of |-> "", uncertainties |-> NoUncertainties, v_init_ht |-> None,
      raised |-> FALSE, text |-> <<>>, shower_calls |-> <<>> ]

\* The local variables l after the assignments upd (a record)
Assign(l, upd) == [k \in DOMAIN l |-> IF k \in DOMAIN upd THEN upd[k] ELSE l[k]]

Init ==
    /\ pc = "idle"
    /\ args = NoArgs
    /\ loc = NoLocals
    /\ orb = NewOrbit
    /\ ephem \in 0 .. Len(Kernels)
    /\ calls = NoCalls
    /\ out = NoOutput
    /\ frames = <<>>
    /\ heap = <<>>

\* The caller constructs an Orbit directly: Orbit()
ConstructOrbit ==
    /\ pc = "idle"
    /\ pc' = "fresh"
    /\ orb' = NewOrbit
    /\ UNCHANGED <<args, loc, ephem, calls, out, frames, heap>>

\* calcOrbit is entered: lines 349-422
Call ==
    /\ pc = "idle"
    /\ \E a \in ArgSets :
          /\ args' = a
          /\ loc' = Assign(NoLocals, ReferenceGeometry(a))
    /\ orb' = NewOrbit
    /\ calls' = NoCalls
    /\ pc' = "rotation"
    /\ UNCHANGED <<ephem, out, frames, heap>>

\* Lines 425-499
RotationCorrection ==
    /\ pc = "rotation"
    /\ LET upd == RotationLocals(args, loc)
       IN  /\ loc' = Assign(loc, upd)
           /\ orb' = SetAttrs(orb, RotationAttrs(args, loc,
                                  IF args.stations_fixed THEN None ELSE upd.v_ref_nocorr))
    /\ pc' = "gravity"
    /\ UNCHANGED <<args, ephem, calls, out, frames, heap>>

\* Lines 513-558
GravityCorrection ==
    /\ pc = "gravity"
    /\ LET v_init_corr == CorrectedInitVelocity(args, loc.v_ref_corr)
       IN  /\ loc' = Assign(loc, [v_init_corr |-> v_init_corr])
           /\ orb' = SetAttrs(orb, ApparentAttrs(args, loc, v_init_corr))
    /\ pc' = "gate"
    /\ UNCHANGED <<args, ephem, calls, out, frames, heap>>

\* Line 562 true, then lines 568-580
GateFeasible ==
    /\ pc = "gate"
    /\ ExceedsEscapeVelocity(loc.v_init_corr, loc.eci_ref)
    /\ loc' = Assign(loc, ZenithAttraction(args, loc))
    /\ pc' = "radiant"
    /\ UNCHANGED <<args, orb, ephem, calls, out, frames, heap>>

\* Lines 583-621
GeocentricRadiantStep ==
    /\ pc = "radiant"
    /\ loc' = Assign(loc, GeocentricRadiant(args, loc,
                            GeocentricZenithDistance(loc.zc, loc.v_init_corr, loc.v_g)))
    /\ pc' = "ephemeris"
    /\ UNCHANGED <<args, orb, ephem, calls, out, frames, heap>>

\* Line 562 false: straight to the return statement
GateInfeasible ==
    /\ pc = "gate"
    /\ ~ExceedsEscapeVelocity(loc.v_init_corr, loc.eci_ref)
    /\ pc' = "return"
    /\ UNCHANGED <<args, loc, orb, ephem, calls, out, frames, heap>>

\* Faulty variant: calcOrbit opens the ephemeris file once for each of the two
\* values it needs from it
EphemerisLookupOpeningTwice ==
    /\ pc = "ephemeris"
    /\ ephem # 0
    /\ loc' = Assign(loc, HeliocentricTransform(loc, ephem))
    /\ calls' = [calls EXCEPT !.SPK_open = @ + 2, !.earth_lookup = @ + 1, !.sol_lon = @ + 1]
    /\ pc' = "kepler"
    /\ UNCHANGED <<args, orb, ephem, out, frames, heap>>

\* Lines 625-676 with the ephemeris file in place: SPK.open at line 625, the
\* position and velocity of the Earth at line 630, and the solar longitude,
\* which jd2SolLonJPL gets from the ephemeris without being given the handle,
\* at line 676
EphemerisLookup ==
    /\ pc = "ephemeris"
    /\ ephem # 0
    /\ loc' = Assign(loc, HeliocentricTransform(loc, ephem))
    /\ calls' = [calls EXCEPT !.SPK_open = @ + 1, !.earth_lookup = @ + 1, !.sol_lon = @ + 1]
    /\ pc' = "kepler"
    /\ UNCHANGED <<args, orb, ephem, out, frames, heap>>

\* Line 625 with the ephemeris file missing: SPK.open raises
EphemerisMissing ==
    /\ pc = "ephemeris"
    /\ ephem = 0
    /\ calls' = [calls EXCEPT !.SPK_open = @ + 1]
    /\ pc' = "raised"
    /\ UNCHANGED <<args, loc, orb, ephem, out, frames, heap>>

\* Lines 681-692
KeplerEnergyStep ==
    /\ pc = "kepler"
    /\ loc' = Assign(loc, KeplerEnergy(loc))
    /\ pc' = "vectors"
    /\ UNCHANGED <<args, orb, ephem, calls, out, frames, heap>>

\* Lines 695-721
KeplerVectorsStep ==
    /\ pc = "vectors"
    /\ loc' = Assign(loc, KeplerVectors(loc))
    /\ pc' = "elements"
    /\ UNCHANGED <<args, orb, ephem, calls, out, frames, heap>>

\* Lines 707-747
KeplerElementsStep ==
    /\ pc = "elements"
    /\ loc' = Assign(loc, KeplerElements(loc))
    /\ pc' = "anomalies"
    /\ UNCHANGED <<args, orb, ephem, calls, out, frames, heap>>

\* Lines 750-769
KeplerAnomaliesStep ==
    /\ pc = "anomalies"
    /\ loc' = Assign(loc, KeplerAnomalies(loc))
    /\ pc' = "date"
    /\ UNCHANGED <<args, orb, ephem, calls, out, frames, heap>>

\* Lines 772-775: jd2Date is called and answers with a date
PerihelionDate ==
    /\ pc = "date"
    /\ PerihelionDateWanted(loc.dt_perihelion)
    /\ LET jd == FSub(loc.jd_dyn, loc.dt_perihelion)
       IN  /\ calls' = [calls EXCEPT !.jd2Date = Append(@, jd)]
           /\ loc' = Assign(loc, [last_perihelion |-> jd2Date(jd)])
    /\ pc' = "assign"
    /\ UNCHANGED <<args, orb, ephem, out, frames, heap>>

\* Lines 772-775: jd2Date is called with a Julian date that has no calendar
\* date, and raises
PerihelionDateRaises ==
    /\ pc = "date"
    /\ PerihelionDateWanted(loc.dt_perihelion)
    /\ LET jd == FSub(loc.jd_dyn, loc.dt_perihelion)
       IN  /\ ~jd2DateDefined(jd)
           /\ calls' = [calls EXCEPT !.jd2Date = Append(@, jd)]
    /\ pc' = "raised"
    /\ UNCHANGED <<args, loc, orb, ephem, out, frames, heap>>

\* Lines 777-778: the date of the last perihelion is left out
NoPerihelionDate ==
    /\ pc = "date"
    /\ ~PerihelionDateWanted(loc.dt_perihelion)
    /\ loc' = Assign(loc, [last_perihelion |-> None])
    /\ pc' = "assign"
    /\ UNCHANGED <<args, orb, ephem, calls, out, frames, heap>>

\* Lines 781-823
AssignResults ==
    /\ pc = "assign"
    /\ LET Tj == Tisserand(loc.a, loc.eccentricity, loc.incl)
       IN  /\ loc' = Assign(loc, [Tj |-> Tj])
           /\ orb' = SetAttrs(orb, SetAttrs(ResultAttrs(loc), [Tj |-> Tj]))
    /\ pc' = "return"
    /\ UNCHANGED <<args, ephem, calls, out, frames, heap>>

\* Line 826: the Orbit passes to the caller and the frame is dropped
Return ==
    /\ pc = "return"
    /\ pc' = "held"
    /\ args' = NoArgs
    /\ loc' = NoLocals
    /\ calls' = NoCalls
    /\ UNCHANGED <<orb, ephem, out, frames, heap>>

\* Lines 180-345: the caller prints the Orbit it holds and gets the report
Repr ==
    /\ pc \in {"fresh", "held"}
    /\ ~ReprRaises(orb)
    /\ \E u \in UncertaintySets, ht \in HeightSets :
          out' = [ of |-> IF pc = "fresh" THEN "Orbit()" ELSE "calcOrbit",
                   uncertainties |-> u, v_init_ht |-> ht,
                   raised |-> FALSE, text |-> ReprText(orb, u, ht),
                   shower_calls |-> ShowerCalls(orb) ]
    /\ pc' = "printed"
    /\ UNCHANGED <<args, loc, orb, ephem, calls, frames, heap>>

\* Lines 180-345: the caller prints the Orbit it holds and __repr__ raises, at
\* a line before the shower association of line 333
ReprTypeError ==
    /\ pc \in {"fresh", "held"}
    /\ ReprRaises(orb)
    /\ \E u \in UncertaintySets, ht \in HeightSets :
          out' = [ of |-> IF pc = "fresh" THEN "Orbit()" ELSE "calcOrbit",
                   uncertainties |-> u, v_init_ht |-> ht,
                   raised |-> TRUE, text |-> <<>>, shower_calls |-> <<>> ]
    /\ pc' = "printed"
    /\ UNCHANGED <<args, loc, orb, ephem, calls, frames, heap>>

\* The caller drops what it holds, or handles the exception
Discard ==
    /\ pc \in {"fresh", "held", "printed", "raised"}
    /\ pc' = "idle"
    /\ args' = NoArgs
    /\ loc' = NoLocals
    /\ orb' = NewOrbit
    /\ calls' = NoCalls
    /\ out' = NoOutput
    /\ UNCHANGED <<ephem, frames, heap>>

Next ==
    \/ ConstructOrbit
    \/ Call
    \/ RotationCorrection
    \/ GravityCorrection
    \/ GateFeasible
    \/ GeocentricRadiantStep
    \/ GateInfeasible
    \/ EphemerisLookup
    \/ EphemerisMissing
    \/ KeplerEnergyStep
    \/ KeplerVectorsStep
    \/ KeplerElementsStep
    \/ KeplerAnomaliesStep
    \/ PerihelionDate
    \/ PerihelionDateRaises
    \/ NoPerihelionDate
    \/ AssignResults
    \/ Return
    \/ Repr
    \/ ReprTypeError
    \/ Discard

Spec == Init /\ [][Next]_vars

(***************************************************************************)
(* Several callers.  calcOrbit keeps everything it computes in local       *)
(* variables, which belong to the invocation, and in the Orbit it          *)
(* constructs at line 411, which is an object on the heap that the local   *)
(* orb refers to.  Each thread has one call frame; the configured          *)
(* ephemeris file is read by all of them.  The steps of the invocations    *)
(* interleave in any order.                                                *)
(***************************************************************************)

Threads == {"A", "B"}

\* The identities an Orbit object can have
ObjectIds == {1, 2}

\* The heap slot of an identity that no object has
Free == <<"free">>

\* A thread that is not inside calcOrbit and holds no Orbit
NoFrame == [pc |-> "idle", args |-> NoArgs, loc |-> NoLocals, orb |-> 0]

\* The arguments the threads invoke calcOrbit with
ThreadArgSets ==
    [ radiant_eci : {Vec(100, 0, 0)}, v_init : {Fin(3 * Scale), Fin(5 * Scale)},
      v_avg : {Fin(3 * Scale)}, eci_ref : {Vec(400, 0, 0), Vec(240, 320, 0)},
      jd_ref : {Fin(0)}, stations_fixed : BOOLEAN, reference_init : {FALSE},
      rotation_correction : {FALSE} ]

\* The identities the frames fr refer to, other than thread t's
ReferencedByOthers(fr, t) == {fr[u].orb : u \in DOMAIN fr \ {t}} \ {0}

\* Faulty variant: one module-level Orbit is handed to every invocation
SharedOrbit(h) == 1

\* Line 411, Orbit(): the identity of the newly constructed object, one that
\* no live object has
AllocateOrbit(h) ==
    CHOOSE id \in ObjectIds :
        /\ h[id] = Free
        /\ \A j \in ObjectIds : h[j] = Free => id <= j

InitThreads ==
    /\ pc = "idle"
    /\ args = NoArgs
    /\ loc = NoLocals
    /\ orb = NewOrbit
    /\ ephem \in 0 .. Len(Kernels)
    /\ calls = NoCalls
    /\ out = NoOutput
    /\ frames = [t \in Threads |-> NoFrame]
    /\ heap = [id \in ObjectIds |-> Free]

\* Thread t's frame becomes f and the object id gets the attributes attrs
StepOf(t, f, id, attrs) ==
    /\ frames' = [frames EXCEPT ![t] = f]
    /\ heap' = IF id = 0 THEN heap ELSE [heap EXCEPT ![id] = SetAttrs(@, attrs)]
    /\ UNCHANGED <<pc, args, loc, orb, ephem, calls, out>>

\* Faulty variant: the locals are module-level variables, last written by
\* whichever thread ran last
MovedThroughGlobals(t, to, upd) ==
    LET last == IF frames["A"].pc \notin {"idle", "held"} THEN "A" ELSE t
    IN  [frames[t] EXCEPT !.pc = to, !.loc = Assign(frames[last].loc, upd)]

\* Thread t's frame after the assignments upd to its locals, at position to
Moved(t, to, upd) ==
    [frames[t] EXCEPT !.pc = to, !.loc = Assign(@, upd)]

\* Lines 349-422 in thread t, with the rotation speed v_e
EnterAt(t, a, v_e) ==
    LET id == AllocateOrbit(heap)
    IN  /\ frames' = [frames EXCEPT ![t] =
                         [ pc   |-> "rotation",
                           args |-> a,
                           loc  |-> Assign(Assign(NoLocals, ReferenceGeometry(a)),
                                           [v_e |-> v_e]),
                           orb  |-> id ]]
        /\ heap' = [heap EXCEPT ![id] = NewOrbit]
        /\ UNCHANGED <<pc, args, loc, orb, ephem, calls, out>>

\* calcOrbit is entered in thread t: lines 349-422
ThreadCall(t) ==
    /\ frames[t].pc = "idle"
    /\ \E a \in ThreadArgSets : EnterAt(t, a, ReferenceGeometry(a).v_e)

\* The caller in thread t drops the Orbit it holds, or handles the exception;
\* an object that nothing refers to any more is reclaimed
ThreadDiscard(t) ==
    /\ frames[t].pc \in {"held", "raised"}
    /\ frames' = [frames EXCEPT ![t] = NoFrame]
    /\ heap' = IF frames[t].orb \in ReferencedByOthers(frames, t)
               THEN heap
               ELSE [heap EXCEPT ![frames[t].orb] = Free]
    /\ UNCHANGED <<pc, args, loc, orb, ephem, calls, out>>

\* One step of the invocation running in thread t: the block of the body at
\* the thread's position, computed from the thread's own arguments and locals
ThreadStep(t) ==
    LET f == frames[t]
        l == frames[t].loc
    IN  \* lines 425-499
        \/ /\ f.pc = "rotation"
           /\ LET upd == RotationLocals(f.args, l)
              IN  StepOf(t, Moved(t, "gravity", upd), f.orb,
                         RotationAttrs(f.args, l,
                             IF f.args.stations_fixed THEN None ELSE upd.v_ref_nocorr))
        \* lines 513-558
        \/ /\ f.pc = "gravity"
           /\ LET v_init_corr == CorrectedInitVelocity(f.args, l.v_ref_corr)
              IN  StepOf(t, Moved(t, "gate", [v_init_corr |-> v_init_corr]), f.orb,
                         ApparentAttrs(f.args, l, v_init_corr))
        \* line 562 true, then lines 568-580
        \/ /\ f.pc = "gate"
           /\ ExceedsEscapeVelocity(l.v_init_corr, l.eci_ref)
           /\ StepOf(t, Moved(t, "radiant", ZenithAttraction(f.args, l)), 0, <<>>)
        \* line 562 false
        \/ /\ f.pc = "gate"
           /\ ~ExceedsEscapeVelocity(l.v_init_corr, l.eci_ref)
           /\ StepOf(t, Moved(t, "return", <<>>), 0, <<>>)
        \* lines 583-621
        \/ /\ f.pc = "radiant"
           /\ StepOf(t, Moved(t, "ephemeris",
                              GeocentricRadiant(f.args, l,
                                  GeocentricZenithDistance(l.zc, l.v_init_corr, l.v_g))),
                     0, <<>>)
        \* lines 625-676: the thread opens the ephemeris file itself
        \/ /\ f.pc = "ephemeris"
           /\ ephem # 0
           /\ StepOf(t, Moved(t, "kepler", HeliocentricTransform(l, ephem)), 0, <<>>)
        \* line 625 with the ephemeris file missing
        \/ /\ f.pc = "ephemeris"
           /\ ephem = 0
           /\ StepOf(t, Moved(t, "raised", <<>>), 0, <<>>)
        \* lines 681-692
        \/ /\ f.pc = "kepler"
           /\ StepOf(t, Moved(t, "vectors", KeplerEnergy(l)), 0, <<>>)
        \* lines 695-721
        \/ /\ f.pc = "vectors"
           /\ StepOf(t, Moved(t, "elements", KeplerVectors(l)), 0, <<>>)
        \* lines 707-747
        \/ /\ f.pc = "elements"
           /\ StepOf(t, Moved(t, "anomalies", KeplerElements(l)), 0, <<>>)
        \* lines 750-769
        \/ /\ f.pc = "anomalies"
           /\ StepOf(t, Moved(t, "date", KeplerAnomalies(l)), 0, <<>>)
        \* lines 772-775: jd2Date answers with a date
        \/ /\ f.pc = "date"
           /\ PerihelionDateWanted(l.dt_perihelion)
           /\ StepOf(t, Moved(t, "assign",
                              [last_perihelion |-> jd2Date(FSub(l.jd_dyn, l.dt_perihelion))]),
                     0, <<>>)
        \* lines 772-775: jd2Date raises
        \/ /\ f.pc = "date"
           /\ PerihelionDateWanted(l.dt_perihelion)
           /\ ~jd2DateDefined(FSub(l.jd_dyn, l.dt_perihelion))
           /\ StepOf(t, Moved(t, "raised", <<>>), 0, <<>>)
        \* lines 777-778
        \/ /\ f.pc = "date"
           /\ ~PerihelionDateWanted(l.dt_perihelion)
           /\ StepOf(t, Moved(t, "assign", [last_perihelion |-> None]), 0, <<>>)
        \* lines 781-823
        \/ /\ f.pc = "assign"
           /\ LET Tj == Tisserand(l.a, l.eccentricity, l.incl)
              IN  StepOf(t, Moved(t, "return", [Tj |-> Tj]), f.orb,
                         SetAttrs(ResultAttrs(l), [Tj |-> Tj]))
        \* line 826: the caller receives the Orbit; it remembers the arguments
        \* it gave
        \/ /\ f.pc = "return"
           /\ StepOf(t, [f EXCEPT !.pc = "held", !.loc = NoLocals], 0, <<>>)
        \/ ThreadDiscard(t)

NextThreads == \E t \in Threads : ThreadCall(t) \/ ThreadStep(t)

SpecThreads == InitThreads /\ [][NextThreads]_vars

\* The Orbit an invocation with the arguments a returns when it runs alone
\* with the ephemeris k and the rotation speed v_e: lines 349-826 from top to
\* bottom
calcOrbitAt(a, k, v_e) ==
    LET l0  == Assign(Assign(NoLocals, ReferenceGeometry(a)), [v_e |-> v_e])
        u1  == RotationLocals(a, l0)
        l1  == Assign(l0, u1)
        o1  == SetAttrs(NewOrbit,
                        RotationAttrs(a, l0, IF a.stations_fixed THEN None ELSE u1.v_ref_nocorr))
        vic == CorrectedInitVelocity(a, l1.v_ref_corr)
        l2  == Assign(l1, [v_init_corr |-> vic])
        o2  == SetAttrs(o1, ApparentAttrs(a, l1, vic))
        l3  == Assign(l2, ZenithAttraction(a, l2))
        l4  == Assign(l3, GeocentricRadiant(a, l3,
                              GeocentricZenithDistance(l3.zc, l3.v_init_corr, l3.v_g)))
        l5  == Assign(l4, HeliocentricTransform(l4, k))
        l6  == Assign(l5, KeplerEnergy(l5))
        l7  == Assign(l6, KeplerVectors(l6))
        l8  == Assign(l7, KeplerElements(l7))
        l9  == Assign(l8, KeplerAnomalies(l8))
        l10 == Assign(l9, [last_perihelion |->
                              IF PerihelionDateWanted(l9.dt_perihelion)
                              THEN jd2Date(FSub(l9.jd_dyn, l9.dt_perihelion))
                              ELSE None])
        Tj  == Tisserand(l10.a, l10.eccentricity, l10.incl)
    IN  IF ExceedsEscapeVelocity(vic, l2.eci_ref)
        THEN SetAttrs(o2, SetAttrs(ResultAttrs(Assign(l10, [Tj |-> Tj])), [Tj |-> Tj]))
        ELSE o2

\* The Orbit an invocation with the arguments a returns when it runs alone
calcOrbitAlone(a, k) == calcOrbitAt(a, k, ReferenceGeometry(a).v_e)

(***************************************************************************)
(* Two runs that differ in the rotation speed alone.  To compare them the  *)
(* speed of the Earth's rotation v_e of line 416 is taken from a set: the  *)
(* first run is made with one speed, kept, and repeated with the same      *)
(* arguments and another speed.                                            *)
(***************************************************************************)

\* The arguments of the runs compared
RotationArgSets ==
    [ radiant_eci : {Vec(100, 0, 0), Vec(60, 0, -80)}, v_init : {Fin(3 * Scale), Fin(5 * Scale)},
      v_avg : {Fin(3 * Scale)}, eci_ref : {Vec(400, 0, 0), Vec(240, 320, 0)},
      jd_ref : {Fin(0)}, stations_fixed : BOOLEAN, reference_init : BOOLEAN,
      rotation_correction : BOOLEAN ]

\* The rotation speeds tried for the arguments a: the one of line 416, none,
\* and a faster one
RotationSpeeds(a) == {ReferenceGeometry(a).v_e, Fin(0), FAdd(ReferenceGeometry(a).v_e, Fin(Scale))}

\* The first run: lines 349-422 with a rotation speed of the set
FirstRun ==
    /\ frames["A"].pc = "idle"
    /\ frames["B"].pc = "idle"
    /\ \E a \in RotationArgSets : \E v_e \in RotationSpeeds(a) : EnterAt("A", a, v_e)

\* The second run: the arguments of the first, kept by its caller, with
\* another rotation speed
SecondRun ==
    /\ frames["A"].pc = "held"
    /\ frames["B"].pc = "idle"
    /\ \E v_e \in RotationSpeeds(frames["A"].args) : EnterAt("B", frames["A"].args, v_e)

NextRotationSpeed == FirstRun \/ SecondRun \/ \E t \in Threads : ThreadStep(t)

SpecRotationSpeed == InitThreads /\ [][NextRotationSpeed]_vars
(***************************************************************************)
(* MetSimGUI.saveUpdatedOrbit (src/wmpl/MetSim/GUI.py, lines 4357-4384).   *)
(* The GUI object holds the loaded trajectory self.traj, an object with an *)
(* Orbit of its own, and the fitted constants self.const.  The method      *)
(* calls calcOrbit, whose invocation runs in frame "A", and goes on in     *)
(* frame "gui" once the Orbit is returned.  Objects are on the heap and    *)
(* are referred to by identity.                                            *)
(***************************************************************************)

\* A trajectory is loaded from a pickle with the Orbit stored with it: objects
\* 3 and 4 of a heap of five identities, the orbit attribute of the
\* trajectory being the identity of its Orbit.  self.traj.orbit.v_init is w and
\* self.const.v_init, the initial velocity of the fitted model, is c.
InitGUI ==
    /\ pc = "idle"
    /\ args = NoArgs
    /\ loc = NoLocals
    /\ orb = NewOrbit
    /\ ephem \in 0 .. Len(Kernels)
    /\ calls = NoCalls
    /\ out = NoOutput
    /\ \E tr \in [ radiant_eci_mini : {Vec(100, 0, 0), Vec(60, 0, -80)},
                    v_init : {Fin(4 * Scale), Fin(5 * Scale)}, v_avg : {Fin(3 * Scale)},
                    state_vect_mini : {Vec(400, 0, 0), Vec(240, 320, 0)},
                    rbeg_jd : {Fin(0)}, orbit : {0}, uncertainties : {NoUncertainties} ],
          w \in {Fin(3 * Scale), Fin(4 * Scale), Fin(5 * Scale), Fin(6 * Scale)},
          c \in {Fin(3 * Scale), Fin(4 * Scale), Fin(5 * Scale), Fin(6 * Scale)} :
          /\ heap = [id \in 1 .. 5 |->
                        IF id = 3 THEN SetAttrs(tr, [orbit |-> 4])
                        ELSE IF id = 4
                             THEN SetAttrs(NewOrbit, [v_init |-> w, v_avg |-> tr.v_avg])
                             ELSE Free]
          /\ frames = [ A   |-> NoFrame,
                        gui |-> [ pc |-> "idle", args |-> NoArgs, loc |-> NoLocals, orb |-> 0,
                                  traj |-> 3, const_v_init |-> c, traj_updated |-> 0,
                                  printed |-> <<>>, report |-> None, pickle |-> None,
                                  loaded |-> [ traj  |-> SetAttrs(tr, [orbit |-> 4]),
                                               orbit |-> SetAttrs(NewOrbit,
                                                             [v_init |-> w, v_avg |-> tr.v_avg]) ] ] ]

\* Lines 4362-4366: the arguments calcOrbit is called with, the flags being
\* the defaults of line 349
saveUpdatedOrbitArgs(h, self) ==
    LET traj        == h[self.traj]
        v_init_diff == FSub(self.const_v_init, h[traj.orbit].v_init)
    IN  [ radiant_eci         |-> traj.radiant_eci_mini,
          v_init              |-> FAdd(traj.v_init, v_init_diff),
          v_avg               |-> FAdd(traj.v_avg, v_init_diff),
          eci_ref             |-> traj.state_vect_mini,
          jd_ref              |-> traj.rbeg_jd,
          stations_fixed      |-> FALSE,
          reference_init      |-> TRUE,
          rotation_correction |-> FALSE ]

\* Faulty variant: no copy is made, the name refers to the object given
deepcopyByReference(h, id) == [ heap |-> h, id |-> id ]

\* copy.deepcopy of the trajectory id (line 4373): a new trajectory object
\* with the same attribute values, whose orbit is a new Orbit object with the
\* values of the original's
deepcopy(h, id) ==
    LET free == {i \in DOMAIN h : h[i] = Free}
        n    == CHOOSE i \in free : \A j \in free : i <= j
        m    == CHOOSE i \in free \ {n} : \A j \in free \ {n} : i <= j
    IN  [ heap |-> [h EXCEPT ![n] = SetAttrs(h[id], [orbit |-> m]), ![m] = h[h[id].orbit]],
          id   |-> n ]

\* MetSimGUI.saveUpdatedOrbit, step by step
saveUpdatedOrbit ==
    LET self == frames["gui"]
        rest == <<pc, args, loc, orb, ephem, calls, out>>
        \* what is written of traj_updated: its values and those of its Orbit
        written == [ traj  |-> heap[self.traj_updated],
                     orbit |-> heap[heap[self.traj_updated].orbit] ]
    IN  \* lines 4362-4366: calcOrbit is called
        \/ /\ self.pc = "idle"
           /\ frames["A"].pc = "idle"
           /\ LET a == saveUpdatedOrbitArgs(heap, self)
              IN  EnterAt("A", a, ReferenceGeometry(a).v_e)
        \* line 4369: the Orbit returned is bound to orb and printed
        \/ /\ self.pc = "idle"
           /\ frames["A"].pc = "held"
           /\ frames' = [frames EXCEPT !["gui"].pc = "printed",
                                       !["gui"].orb = frames["A"].orb,
                                       !["gui"].printed =
                                           ReprText(heap[frames["A"].orb], NoUncertainties, None)]
           /\ UNCHANGED <<heap, rest>>
        \* line 4373: traj_updated = copy.deepcopy(self.traj)
        \/ /\ self.pc = "printed"
           /\ LET c == deepcopy(heap, self.traj)
              IN  /\ heap' = c.heap
                  /\ frames' = [frames EXCEPT !["gui"].pc = "copied",
                                              !["gui"].traj_updated = c.id]
           /\ UNCHANGED rest
        \* line 4374: traj_updated.orbit = orb; the Orbit copied with the
        \* trajectory is referred to no more
        \/ /\ self.pc = "copied"
           /\ heap' = [id \in DOMAIN heap |->
                          IF id = self.traj_updated
                          THEN SetAttrs(heap[id], [orbit |-> self.orb])
                          ELSE IF /\ id = heap[self.traj_updated].orbit
                                  /\ id # heap[self.traj].orbit
                               THEN Free
                               ELSE heap[id]]
           /\ frames' = [frames EXCEPT !["gui"].pc = "attached"]
           /\ UNCHANGED rest
        \* line 4379: the report is saved from traj_updated
        \/ /\ self.pc = "attached"
           /\ frames' = [frames EXCEPT !["gui"].pc = "reported",
                                       !["gui"].report = written]
           /\ UNCHANGED <<heap, rest>>
        \* line 4383: the pickle is saved from traj_updated
        \/ /\ self.pc = "reported"
           /\ frames' = [frames EXCEPT !["gui"].pc = "pickled",
                                       !["gui"].pickle = written]
           /\ UNCHANGED <<heap, rest>>
        \* the method returns: its locals go, and with them the objects only
        \* they referred to
        \/ /\ self.pc = "pickled"
           /\ frames["A"].pc = "idle"
           /\ heap' = [id \in DOMAIN heap |->
                          IF id \in {self.traj, heap[self.traj].orbit} THEN heap[id] ELSE Free]
           /\ frames' = [frames EXCEPT !["gui"].pc = "idle", !["gui"].orb = 0,
                                       !["gui"].traj_updated = 0]
           /\ UNCHANGED rest

\* The invocation of calcOrbit made by the method runs to its return or to
\* its exception; its frame goes when the method has ended
NextGUI ==
    \/ saveUpdatedOrbit
    \/ /\ frames["A"].pc = "held" => frames["gui"].pc = "pickled"
       /\ ThreadStep("A")

SpecGUI == InitGUI /\ [][NextGUI]_vars


(***************************************************************************)
(* Properties.  calcOrbit returns at line 826; there its arguments and     *)
(* locals are still at hand, and orb is the Orbit the caller receives.     *)
(***************************************************************************)

\* The two sides of the comparison of line 562, from the corrected initial
\* velocity and the reference position the caller gave
GateSpeedSq == FMul(loc.v_init_corr, loc.v_init_corr)

GateEscapeSq == FDiv(Fin(EARTH_2GM), vectMag(args.eci_ref))

ReturnsInfeasible == pc = "return" /\ ~FGt(GateSpeedSq, GateEscapeSq)

ReturnsFeasible == pc = "return" /\ FGt(GateSpeedSq, GateEscapeSq)

\* The radiant and the reference position given are vectors of non-zero length
ValidGeometry ==
    /\ FGt(vectMag(args.radiant_eci), Fin(0))
    /\ FGt(vectMag(args.eci_ref), Fin(0))

C1_Fields ==
    {"v_g", "ra_g", "dec_g", "L_g", "B_g", "zc", "zg", "meteor_pos", "v_h", "v_h_x", "v_h_y",
     "v_h_z", "L_h", "B_h", "la_sun", "a", "e", "i", "peri", "node", "pi", "q", "Q",
     "true_anomaly", "eccentric_anomaly", "mean_anomaly", "last_perihelion", "n", "T", "Tj"}

\* C1: when the corrected initial velocity squared does not exceed the squared
\* escape velocity 2*G*M_Earth/|eci_ref| (equality included), calcOrbit raises
\* nothing and every listed geocentric and heliocentric field of the Orbit it
\* returns is None.
C1_InfeasibleOrbitIsUnset ==
    /\ ReturnsInfeasible => \A f \in C1_Fields : IsNone(orb[f])
    /\ pc = "raised" => FGt(GateSpeedSq, GateEscapeSq)

\* An invocation returns with the velocity exactly at the escape velocity
C1_Witness ==
    /\ pc = "return"
    /\ FEq(GateSpeedSq, GateEscapeSq)
    /\ IsNone(orb.a)
    /\ IsNone(orb.e)
    /\ ~IsNone(orb.ra)

\* C2 as stated: v_inf is None in the Orbit returned whenever the corrected
\* initial velocity does not exceed the escape velocity.
C2_VInfUnsetWhenInfeasible == ReturnsInfeasible => IsNone(orb.v_inf)

\* C2 amended: v_inf is the corrected initial velocity in every Orbit calcOrbit
\* returns, also when that velocity does not exceed the escape velocity.
C2_VInfAlwaysSet ==
    pc = "return" => (~IsNone(orb.v_inf) /\ orb.v_inf = loc.v_init_corr)

\* An infeasible Orbit is returned with v_inf set
C2_Witness ==
    /\ ReturnsInfeasible
    /\ IsNone(orb.v_g)
    /\ IsFin(orb.v_inf)
    /\ orb.v_inf = loc.v_init_corr

C3_Fields == C1_Fields \cup {"v_inf"}

\* C3 as stated, for inputs of valid geometry: above the escape velocity every
\* geocentric and heliocentric field of the Orbit returned is set,
\* last_perihelion included.
C3_AllFieldsSet ==
    (ReturnsFeasible /\ ValidGeometry) => \A f \in C3_Fields : ~IsNone(orb[f])

\* C3 amended: above the escape velocity every geocentric and heliocentric
\* field other than last_perihelion is set in the Orbit returned;
\* last_perihelion is None when dt_perihelion is NaN, which it is for every
\* hyperbolic solution, and set when dt_perihelion is finite.
C3_AllButPerihelionDateSet ==
    ReturnsFeasible =>
        /\ \A f \in C3_Fields \ {"last_perihelion"} : ~IsNone(orb[f])
        /\ IsNaN(loc.dt_perihelion) => IsNone(orb.last_perihelion)
        /\ IsFin(loc.dt_perihelion) => ~IsNone(orb.last_perihelion)
        /\ FGt(orb.e, Fin(Scale)) => IsNone(orb.last_perihelion)

\* A hyperbolic orbit is returned without the date of its last perihelion
C3_Witness ==
    /\ ReturnsFeasible
    /\ ValidGeometry
    /\ FGt(orb.e, Fin(Scale))
    /\ FLt(orb.a, Fin(0))
    /\ IsNone(orb.last_perihelion)
    /\ IsFin(orb.q)

C4_Fields ==
    {"ra", "dec", "azimuth_apparent", "elevation_apparent", "v_avg", "v_init",
     "ra_norot", "dec_norot", "azimuth_apparent_norot", "elevation_apparent_norot",
     "v_avg_norot", "v_init_norot"}

\* C4: the twelve apparent radiant fields are set in every Orbit calcOrbit
\* returns, whatever the three flags and whether or not the orbit is feasible.
C4_ApparentFieldsSet == pc = "return" => \A f \in C4_Fields : ~IsNone(orb[f])

\* An infeasible Orbit of fixed stations, average reference and rotation
\* correction is returned
C4_Witness ==
    /\ ReturnsInfeasible
    /\ args.stations_fixed
    /\ ~args.reference_init
    /\ args.rotation_correction
    /\ IsFin(orb.ra_norot)
    /\ IsFin(orb.v_avg_norot)
    /\ IsFin(orb.elevation_apparent)

C5_Dereferenced ==
    {"jd_dyn", "lst_ref", "dec_g", "v_g", "v_inf", "zc", "zg", "L_g", "B_g", "v_h", "L_h",
     "B_h", "v_h_x", "v_h_y", "v_h_z", "la_sun", "a", "e", "i", "peri", "node", "pi", "q",
     "Q", "true_anomaly", "mean_anomaly", "n", "T", "Tj"}

PrintedReturned == pc = "printed" /\ out.of = "calcOrbit"

\* C5: __repr__ of an Orbit returned by calcOrbit does not raise; ra_g is set
\* exactly when every field the geocentric and orbit sections dereference is
\* set; with ra_g None the report has the twelve apparent lines only (no
\* header, geocentric, orbit or shower line); with ra_g set and last_perihelion
\* None the last perihelion line reads NaN.
C5_ReprOfReturnedOrbit ==
    /\ pc \in {"return", "held"} \/ PrintedReturned =>
          (~IsNone(orb.ra_g) <=> \A f \in C5_Dereferenced : ~IsNone(orb[f]))
    /\ PrintedReturned =>
          /\ ~out.raised
          /\ IsNone(orb.ra_g) =>
                /\ Len(out.text) = 12
                /\ \A k \in DOMAIN out.text : out.text[k].field \in C4_Fields
          /\ ~IsNone(orb.ra_g) =>
                /\ \E k \in DOMAIN out.text : out.text[k].label = "JD dynamic"
                /\ \E k \in DOMAIN out.text : out.text[k].label = "IAU code"
                /\ \E k \in DOMAIN out.text : out.text[k].label = "Last perihelion JD"
                /\ \A k \in DOMAIN out.text :
                      out.text[k].label = "Last perihelion JD" =>
                          (IsNone(orb.last_perihelion) <=> out.text[k].value = <<"text", "NaN">>)

\* A hyperbolic orbit is printed: the sections are there and the last
\* perihelion reads NaN
C5_Witness ==
    /\ PrintedReturned
    /\ ~out.raised
    /\ ~IsNone(orb.ra_g)
    /\ IsNone(orb.last_perihelion)
    /\ \E k \in DOMAIN out.text :
          /\ out.text[k].label = "Last perihelion JD"
          /\ out.text[k].value = <<"text", "NaN">>

\* C6: __repr__ returns a string without raising for every Orbit, a freshly
\* constructed Orbit() included.
C6_ReprNeverRaises == pc = "printed" => ~out.raised

\* The name a report line hands to _uncer according to the amended C7
C7_NameGiven(field) ==
    CASE field = "ra_norot"                 -> "ra"
      [] field = "dec_norot"                -> "dec"
      [] field = "azimuth_apparent_norot"   -> "azimuth_apparent"
      [] field = "elevation_apparent_norot" -> "elevation_apparent"
      [] field = "v_avg_norot"              -> "v_avg"
      [] field = "v_init_norot"             -> "v_init"
      [] OTHER                              -> field

C7_Carries(name) == out.uncertainties.given /\ name \in DOMAIN out.uncertainties.attr

\* C7 as stated: a rendered field has an uncertainty suffix only when the
\* uncertainties object carries an attribute of that field's name, and has
\* none when uncertainties is None or lacks that attribute.
C7_SuffixFollowsFieldName ==
    pc = "printed" =>
        \A k \in DOMAIN out.text :
            out.text[k].field # "" =>
                (out.text[k].suffix = <<>> \/ C7_Carries(out.text[k].field))

\* C7 amended: a rendered field has an uncertainty suffix only when the
\* uncertainties object carries the attribute whose name the line hands to
\* _uncer, which is the field's own name except on the six ground-fixed lines
\* (ra_norot, dec_norot, azimuth_apparent_norot, elevation_apparent_norot,
\* v_avg_norot, v_init_norot), which hand over the names of their rotating
\* counterparts; without that attribute, or with uncertainties None, the
\* suffix is empty, and the uncertainties never make the rendering raise.
C7_SuffixFollowsNameGiven ==
    /\ pc = "printed" =>
          \A k \in DOMAIN out.text :
              out.text[k].field # "" =>
                  (out.text[k].suffix = <<>> \/ C7_Carries(C7_NameGiven(out.text[k].field)))
    /\ PrintedReturned => ~out.raised

\* A report is made with uncertainties that carry ra but not dec: the R.A.
\* lines of both apparent sections have a suffix, the Dec lines have none
C7_Witness ==
    /\ PrintedReturned
    /\ C7_Carries("ra")
    /\ ~C7_Carries("dec")
    /\ ~C7_Carries("ra_norot")
    /\ \E k \in DOMAIN out.text : out.text[k].field = "ra" /\ out.text[k].suffix # <<>>
    /\ \E k \in DOMAIN out.text : out.text[k].field = "ra_norot" /\ out.text[k].suffix # <<>>
    /\ \E k \in DOMAIN out.text : out.text[k].field = "dec" /\ out.text[k].suffix = <<>>

\* C8: when dt_perihelion is not finite (NaN or an infinity) jd2Date is not
\* called, nothing is raised and last_perihelion is None.
C8_NonFiniteLeftUnset ==
    /\ Len(calls.jd2Date) > 0 => IsFin(loc.dt_perihelion)
    /\ (pc \in {"assign", "return", "raised"} /\ ~IsNone(loc.dt_perihelion)
           /\ ~IsFin(loc.dt_perihelion))
          => (pc # "raised" /\ IsNone(loc.last_perihelion))

\* C9: in every feasible Orbit returned with e != 1, q is a*(1 - e) and Q is
\* a*(1 + e), computed from the a and e stored in that Orbit.
C9_ApsidesFromElements ==
    (ReturnsFeasible /\ FNe(orb.e, Fin(Scale))) =>
        /\ orb.q = FMul(orb.a, FSub(Fin(Scale), orb.e))
        /\ orb.Q = FMul(orb.a, FAdd(Fin(Scale), orb.e))

\* An elliptical orbit with distinct finite apsides is returned
C9_Witness ==
    /\ ReturnsFeasible
    /\ ValidGeometry
    /\ FLt(orb.e, Fin(Scale))
    /\ FGt(orb.e, Fin(0))
    /\ FGt(orb.q, Fin(0))
    /\ FGt(orb.Q, orb.q)
    /\ orb.q = FMul(orb.a, FSub(Fin(Scale), orb.e))

C10_Angles == {"node", "peri", "true_anomaly", "mean_anomaly"}

\* C10 as stated, for inputs of valid geometry: in every feasible Orbit
\* returned, node, peri, true_anomaly and mean_anomaly lie in [0, 2*pi).
C10_AnglesNormalized ==
    (ReturnsFeasible /\ ValidGeometry) =>
        \A f \in C10_Angles : IsFin(orb[f]) /\ 0 <= orb[f][2] /\ orb[f][2] < TWO_PI

\* C10 amended: in every feasible Orbit returned, each of node, peri,
\* true_anomaly and mean_anomaly is NaN or lies between 0 and 2*pi, and
\* mean_anomaly is NaN for every hyperbolic solution.
C10_AnglesNormalizedOrNaN ==
    ReturnsFeasible =>
        /\ \A f \in C10_Angles :
              IsNaN(orb[f]) \/ (IsFin(orb[f]) /\ 0 <= orb[f][2] /\ orb[f][2] <= TWO_PI)
        /\ FGt(orb.e, Fin(Scale)) => IsNaN(orb.mean_anomaly)

\* A hyperbolic orbit is returned: node, peri and true_anomaly are normalized,
\* mean_anomaly is NaN
C10_Witness ==
    /\ ReturnsFeasible
    /\ ValidGeometry
    /\ FGt(orb.e, Fin(Scale))
    /\ IsNaN(orb.mean_anomaly)
    /\ \A f \in C10_Angles \ {"mean_anomaly"} : IsFin(orb[f]) /\ orb[f][2] < TWO_PI
    /\ FGt(orb.node, Fin(PI))

\* Tisserand's parameter recomputed from the a, e and i stored in the Orbit:
\* 2*sqrt((1 - e^2)*a/5.204267)*cos(i) + 5.204267/a
C11_Recomputed ==
    FAdd(FMul(FMul(Fin(2 * Scale),
                   FSqrt(FDiv(FMul(FSub(Fin(Scale), FMul(orb.e, orb.e)), orb.a),
                              Fin(JUPITER_A)))),
              FCos(orb.i)),
         FDiv(Fin(JUPITER_A), orb.a))

\* C11: in every feasible Orbit returned with a > 0, Tj recomputed from the
\* stored a, e and i is the stored Tj, and the stored a, e, i are the values
\* Tj was computed from.
C11_TisserandFromElements ==
    (ReturnsFeasible /\ FGt(orb.a, Fin(0))) =>
        /\ orb.Tj = C11_Recomputed
        /\ orb.a = loc.a /\ orb.e = loc.eccentricity /\ orb.i = loc.incl
        /\ orb.Tj = loc.Tj

\* A bound, inclined orbit is returned with a finite Tisserand parameter
C11_Witness ==
    /\ ReturnsFeasible
    /\ ValidGeometry
    /\ FGt(orb.a, Fin(0))
    /\ FLt(orb.e, Fin(Scale))
    /\ FGt(orb.i, Fin(0))
    /\ IsFin(orb.Tj)
    /\ orb.Tj = C11_Recomputed
    /\ orb.Tj # FDiv(Fin(JUPITER_A), orb.a)

C15_InvalidGeometryRaises == pc = "return" => ValidGeometry

\* C16: with the configured ephemeris file missing no invocation of calcOrbit,
\* feasible or not, gets to return an Orbit, and the open is not retried.
C16_MissingEphemerisIsFatalAtStartup ==
    ephem = 0 => (pc \notin {"return", "held"} /\ calls.SPK_open <= 1)

\* The heliocentric solution of the running invocation is hyperbolic
C17_Hyperbolic == ~IsNone(loc.epsilon) /\ FGt(loc.epsilon, Fin(0))

\* The mean motion computed from |a|: sqrt(G*M_sun/(|a|*AU*1000)^3)*86400
C17_MeanMotionOfAbs ==
    FMul(FSqrt(FDiv(Fin(G_SUN_MASS),
                    Cube(FMul(FMul(FAbs(orb.a), Fin(AU)), Fin(M_PER_KM))))),
         Fin(DAY_S))

\* C17: for a hyperbolic heliocentric solution (specific orbital energy > 0,
\* a < 0) calcOrbit raises nothing and returns an Orbit whose period T is NaN,
\* whose mean motion n is finite and computed from |a|, and whose
\* last_perihelion is None.
C17_HyperbolicPropagatesNaN ==
    C17_Hyperbolic =>
        /\ FLt(loc.a, Fin(0))
        /\ pc # "raised"
        /\ pc = "return" =>
              /\ IsNaN(orb.T)
              /\ IsFin(orb.n)
              /\ orb.n = C17_MeanMotionOfAbs
              /\ IsNone(orb.last_perihelion)

\* A hyperbolic orbit is returned
C17_Witness ==
    /\ pc = "return"
    /\ ValidGeometry
    /\ C17_Hyperbolic
    /\ FLt(orb.a, Fin(0))
    /\ IsNaN(orb.T)
    /\ FGt(orb.n, Fin(0))
    /\ IsNone(orb.last_perihelion)
    /\ FGt(orb.e, Fin(Scale))

\* C19: without the rotation correction the velocity stored as v_inf is the
\* v_init given, whatever reference_init and stations_fixed; with
\* reference_init False the reference vector is v_avg*radiant_eci while the
\* gate and v_g still use v_init.
C19_NoCorrectionKeepsVInit ==
    (pc = "return" /\ ~args.rotation_correction) =>
        /\ orb.v_inf = args.v_init
        /\ ~args.reference_init => loc.v_ref_vect = VScale(args.v_avg, args.radiant_eci)
        /\ ~IsNone(orb.v_g) <=>
              FGt(FMul(args.v_init, args.v_init), GateEscapeSq)
        /\ ~IsNone(orb.v_g) =>
              orb.v_g = FSqrt(FSub(FMul(args.v_init, args.v_init), GateEscapeSq))

\* A feasible Orbit of an average reference point is returned without the
\* rotation correction, v_avg differing from v_init
C19_Witness ==
    /\ ReturnsFeasible
    /\ ValidGeometry
    /\ ~args.rotation_correction
    /\ ~args.reference_init
    /\ args.stations_fixed
    /\ args.v_avg # args.v_init
    /\ orb.v_inf = args.v_init
    /\ vectMag(loc.v_ref_corr) # args.v_init
    /\ IsFin(orb.v_g)

\* C20: with the rotation correction the velocity stored as v_inf is
\* |v_ref_corr| when reference_init is True and |v_ref_corr| + v_init - v_avg
\* when it is False, v_ref_corr being the vector of the stations_fixed branch
\* taken.
C20_CorrectionFromReferenceVector ==
    (pc = "return" /\ args.rotation_correction) =>
        /\ loc.v_ref_corr =
              (IF args.stations_fixed
               THEN StationsFixedCorrection(loc.v_ref_vect, loc.v_e, loc.ra_east)
               ELSE loc.v_ref_vect)
        /\ loc.v_ref_vect =
              VScale(IF args.reference_init THEN args.v_init ELSE args.v_avg, args.radiant_eci)
        /\ args.reference_init => orb.v_inf = vectMag(loc.v_ref_corr)
        /\ ~args.reference_init =>
              orb.v_inf = FSub(FAdd(vectMag(loc.v_ref_corr), args.v_init), args.v_avg)

\* An Orbit of fixed stations and an average reference point is returned with
\* the rotation correction: v_inf differs from v_init and from |v_ref_corr|
C20_Witness ==
    /\ pc = "return"
    /\ ValidGeometry
    /\ args.rotation_correction
    /\ ~args.reference_init
    /\ args.stations_fixed
    /\ loc.v_ref_corr # loc.v_ref_vect
    /\ IsFin(orb.v_inf)
    /\ orb.v_inf # args.v_init
    /\ orb.v_inf # vectMag(loc.v_ref_corr)

(***************************************************************************)
(* Properties of several invocations.  A thread at "return" has the Orbit  *)
(* it is about to return; at "held" its caller has it.                     *)
(***************************************************************************)

\* Thread t has an Orbit that calcOrbit returned or is about to return
HasResult(t) == frames[t].pc \in {"return", "held"}

\* C13: two invocations with equal arguments and the same ephemeris return
\* Orbits whose fields are pairwise equal, whatever ran in between; the Orbit
\* of an invocation is newly constructed, every field None, and is an object
\* of its own that no other invocation or earlier result shares.
C13_DeterministicAndFresh ==
    \A t \in Threads :
        /\ frames[t].pc = "rotation" => heap[frames[t].orb] = NewOrbit
        /\ \A u \in Threads \ {t} :
              /\ frames[t].orb # 0 => frames[t].orb # frames[u].orb
              /\ (HasResult(t) /\ HasResult(u) /\ frames[t].args = frames[u].args) =>
                    \A f \in OrbitFields : heap[frames[t].orb][f] = heap[frames[u].orb][f]

\* A caller holds a feasible Orbit while another invocation with the same
\* arguments returns: two objects, the same fields
C13_Witness ==
    /\ frames["A"].pc = "held"
    /\ frames["B"].pc = "return"
    /\ frames["A"].args = frames["B"].args
    /\ frames["A"].orb # frames["B"].orb
    /\ IsFin(heap[frames["A"].orb].a)
    /\ IsFin(heap[frames["B"].orb].Tj)
    /\ heap[frames["A"].orb] = heap[frames["B"].orb]

\* C14: under every interleaving of the steps of the invocations running in
\* different threads, each invocation returns the Orbit it returns when it
\* runs alone, and a caller's Orbit stays what was returned while other
\* invocations run.
C14_ThreadsIndependent ==
    \A t \in Threads :
        HasResult(t) => heap[frames[t].orb] = calcOrbitAlone(frames[t].args, ephem)

\* An invocation returns a feasible Orbit while an invocation with other
\* arguments is in the middle of its Kepler computation
C14_Witness ==
    /\ frames["A"].pc = "return"
    /\ frames["B"].pc \in {"vectors", "elements", "anomalies", "date", "assign"}
    /\ frames["A"].args # frames["B"].args
    /\ IsFin(heap[frames["A"].orb].a)
    /\ IsNone(heap[frames["B"].orb].a)
    /\ heap[frames["A"].orb] = calcOrbitAlone(frames["A"].args, ephem)

\* The second of two runs with moving stations returns, the first being kept
C18_BothRunsMoving ==
    /\ frames["A"].pc = "held"
    /\ frames["B"].pc = "return"
    /\ ~frames["B"].args.stations_fixed

\* C18: with moving stations v_ref_corr is the raw reference vector
\* (v_init*radiant_eci or v_avg*radiant_eci), and two runs that differ only in
\* the rotation speed v_e return Orbits that differ in nothing but the six
\* no-rotation reporting fields: v_inf and every geocentric and heliocentric
\* field are the same.
C18_NoRotationIsReportingOnly ==
    /\ \A t \in Threads :
          (frames[t].pc \in {"gravity", "gate", "radiant", "return"}
              /\ ~frames[t].args.stations_fixed) =>
             frames[t].loc.v_ref_corr =
                 VScale(IF frames[t].args.reference_init
                        THEN frames[t].args.v_init ELSE frames[t].args.v_avg,
                        frames[t].args.radiant_eci)
    /\ C18_BothRunsMoving =>
          \A f \in OrbitFields \ NoRotFields :
              heap[frames["A"].orb][f] = heap[frames["B"].orb][f]

\* Two feasible runs with moving stations and different rotation speeds: the
\* no-rotation velocity differs, the orbit does not
C18_Witness ==
    /\ C18_BothRunsMoving
    /\ heap[frames["A"].orb].v_init_norot # heap[frames["B"].orb].v_init_norot
    /\ heap[frames["A"].orb].ra_norot # heap[frames["B"].orb].ra_norot
    /\ IsFin(heap[frames["B"].orb].a)
    /\ heap[frames["A"].orb].a = heap[frames["B"].orb].a
    /\ heap[frames["A"].orb].v_inf = heap[frames["B"].orb].v_inf

(***************************************************************************)
(* Properties of the rotation correction, the Kepler elements and the      *)
(* report, third part.                                                     *)
(***************************************************************************)

\* The rotation block of lines 425-499 has run in this invocation
RotationDone == pc \notin {"idle", "fresh", "rotation", "printed", "held"}

\* The raw reference vector: v_init*radiant_eci or v_avg*radiant_eci
C21_Raw == VScale(IF args.reference_init THEN args.v_init ELSE args.v_avg, args.radiant_eci)

\* C21: the raw reference vector is v_init*radiant_eci when reference_init is
\* True and v_avg*radiant_eci otherwise; with fixed stations the corrected
\* vector is (raw_x - v_e*cos(ra_east), raw_y - v_e*sin(ra_east), raw_z), with
\* moving stations it is the raw vector in all three components, and the z
\* component of the derotated vector is raw_z.
C21_RotationTouchesXYOnly ==
    RotationDone =>
        /\ loc.v_ref_vect = C21_Raw
        /\ args.stations_fixed =>
              loc.v_ref_corr = << FSub(C21_Raw[1], FMul(loc.v_e, FCos(loc.ra_east))),
                                  FSub(C21_Raw[2], FMul(loc.v_e, FSin(loc.ra_east))),
                                  C21_Raw[3] >>
        /\ ~args.stations_fixed =>
              /\ loc.v_ref_corr = C21_Raw
              /\ loc.v_ref_nocorr[1] = FAdd(C21_Raw[1], FMul(loc.v_e, FCos(loc.ra_east)))
              /\ loc.v_ref_nocorr[2] = FAdd(C21_Raw[2], FMul(loc.v_e, FSin(loc.ra_east)))
              /\ loc.v_ref_nocorr[3] = C21_Raw[3]

\* Fixed stations, a rotating reference point and a radiant with a z
\* component: x and y are changed, z is not
C21_Witness ==
    /\ pc = "gravity"
    /\ args.stations_fixed
    /\ FGt(loc.v_e, Fin(0))
    /\ loc.v_ref_vect[3] # Fin(0)
    /\ loc.v_ref_corr[1] # loc.v_ref_vect[1]
    /\ loc.v_ref_corr[2] # loc.v_ref_vect[2]
    /\ loc.v_ref_corr[3] = loc.v_ref_vect[3]

\* C22: with fixed stations ra_norot and dec_norot are the right ascension and
\* declination of the radiant vector given, v_init_norot is the v_init given
\* and v_avg_norot the v_avg given, and every no-rotation field equals its
\* counterpart with the rotation included, whatever the rotation speed.
C22_FixedStationsNoRotIsInput ==
    (pc = "return" /\ args.stations_fixed) =>
        /\ orb.ra_norot = eci2RaDec(args.radiant_eci).ra
        /\ orb.dec_norot = eci2RaDec(args.radiant_eci).dec
        /\ orb.v_init_norot = args.v_init
        /\ orb.v_avg_norot = args.v_avg
        /\ orb.ra_norot = orb.ra
        /\ orb.dec_norot = orb.dec
        /\ orb.azimuth_apparent_norot = orb.azimuth_apparent
        /\ orb.elevation_apparent_norot = orb.elevation_apparent
        /\ orb.v_init_norot = orb.v_init
        /\ orb.v_avg_norot = orb.v_avg

\* An Orbit of fixed stations is returned from a rotating reference point whose
\* correction changed the direction of the reference vector
C22_Witness ==
    /\ pc = "return"
    /\ ValidGeometry
    /\ args.stations_fixed
    /\ FGt(loc.v_e, Fin(0))
    /\ eci2RaDec(vectNorm(loc.v_ref_corr)).ra # orb.ra
    /\ args.v_init # args.v_avg
    /\ IsFin(orb.ra_norot)
    /\ orb.ra_norot = orb.ra
    /\ orb.v_avg_norot = args.v_avg

\* The block of lines 707-747 has run in this invocation
ElementsDone == pc \in {"anomalies", "date", "assign"} \/ ReturnsFeasible

\* The ascending-node vector n_vect = k x h has zero magnitude
C23_Equatorial == FEq(vectMag(loc.n_vect), Fin(0))

\* The angle between the node vector and the eccentricity vector
C23_Angle ==
    FArccos(FDiv(Dot(loc.n_vect, loc.e_vect), FMul(vectMag(loc.n_vect), vectMag(loc.e_vect))))

\* C23 as stated: with |n_vect| zero node is 0 and peri is acos(e_x/|e_vect|),
\* and an Orbit is returned; with |n_vect| non-zero peri is
\* acos(n.e/(|n||e|)), replaced by 2*pi minus that value exactly when the z
\* component of e_vect is negative.
C23_EquatorialFallback ==
    ElementsDone =>
        /\ C23_Equatorial =>
              /\ loc.node = Fin(0)
              /\ loc.peri = FArccos(FDiv(loc.e_vect[1], vectMag(loc.e_vect)))
        /\ ~C23_Equatorial =>
              loc.peri = (IF FLt(loc.e_vect[3], Fin(0))
                          THEN FSub(Fin(TWO_PI), C23_Angle) ELSE C23_Angle)
        /\ pc = "return" => (orb.node = loc.node /\ orb.peri = loc.peri)

\* C23 amended: with |n_vect| zero node is 0 and peri is acos(e_x/|e_vect|),
\* computed without |n_vect|; with |n_vect| non-zero peri is
\* acos(n.e/(|n||e|)), replaced by 2*pi minus that value exactly when the z
\* component of e_vect is negative, and in both cases reduced modulo 2*pi, so
\* that 2*pi - 0 is stored as 0; the Orbit returned holds these values.
C23_EquatorialFallbackMod2Pi ==
    ElementsDone =>
        /\ C23_Equatorial =>
              /\ loc.node = Fin(0)
              /\ loc.peri = Mod2Pi(FArccos(FDiv(loc.e_vect[1], vectMag(loc.e_vect))))
              /\ IsFin(loc.e_vect[1]) /\ FGt(vectMag(loc.e_vect), Fin(0)) => IsFin(loc.peri)
        /\ ~C23_Equatorial =>
              loc.peri = Mod2Pi(IF FLt(loc.e_vect[3], Fin(0))
                                THEN FSub(Fin(TWO_PI), C23_Angle) ELSE C23_Angle)
        /\ pc = "return" => (orb.node = loc.node /\ orb.peri = loc.peri)

\* An Orbit in the reference plane is returned with node 0 and a finite
\* argument of perihelion
C23_Witness ==
    /\ ReturnsFeasible
    /\ C23_Equatorial
    /\ FGt(vectMag(loc.e_vect), Fin(0))
    /\ orb.node = Fin(0)
    /\ IsFin(orb.peri)
    /\ orb.peri = FArccos(FDiv(loc.e_vect[1], vectMag(loc.e_vect)))

\* C24: when the eccentricity equals 1 exactly q is
\* (|r| + e_vect.r)/(1 + |e_vect|), computed without the semi-major axis a,
\* while Q is a*(1 + e); for every other eccentricity q is a*(1 - e).
C24_ParabolicBranch ==
    ElementsDone =>
        /\ FEq(loc.eccentricity, Fin(Scale)) =>
              loc.q = FDiv(FAdd(vectMag(loc.meteor_pos), Dot(loc.e_vect, loc.meteor_pos)),
                           FAdd(Fin(Scale), vectMag(loc.e_vect)))
        /\ ~FEq(loc.eccentricity, Fin(Scale)) =>
              loc.q = FMul(loc.a, FSub(Fin(Scale), loc.eccentricity))
        /\ loc.Q = FMul(loc.a, FAdd(Fin(Scale), loc.eccentricity))
        /\ pc = "return" => (orb.q = loc.q /\ orb.Q = loc.Q /\ orb.e = loc.eccentricity)

\* An Orbit of eccentricity exactly 1 is returned whose q is not a*(1 - e)
C24_Witness ==
    /\ ReturnsFeasible
    /\ orb.e = Fin(Scale)
    /\ IsFin(orb.a)
    /\ IsFin(orb.q)
    /\ orb.q # FMul(orb.a, FSub(Fin(Scale), orb.e))
    /\ orb.Q = FMul(orb.a, Fin(2 * Scale))

\* The lines of the report printed that carry the given label
C25_Lines(label) == {k \in DOMAIN out.text : out.text[k].label = label}

\* What the shower lookup answers for the Orbit printed
C25_Shower == associateShower(orb.la_sun, orb.L_g, orb.B_g, orb.v_g)

\* C25: __repr__ calls associateShower exactly once, with
\* (la_sun, L_g, B_g, v_g), when and only when ra_g is set; without a match
\* the report shows IAU No. -1 and IAU code '...', otherwise the IAU_no and
\* IAU_code of the object returned; for an Orbit with ra_g unset the lookup is
\* never called and the report has no shower lines.
C25_ShowerLookedUpOnce ==
    pc = "printed" =>
        /\ IsNone(orb.ra_g) =>
              /\ out.shower_calls = <<>>
              /\ C25_Lines("IAU No.") = {}
              /\ C25_Lines("IAU code") = {}
        /\ ~IsNone(orb.ra_g) =>
              /\ ~out.raised
              /\ out.shower_calls = << <<orb.la_sun, orb.L_g, orb.B_g, orb.v_g>> >>
              /\ Cardinality(C25_Lines("IAU No.")) = 1
              /\ Cardinality(C25_Lines("IAU code")) = 1
              /\ \A k \in C25_Lines("IAU No.") :
                    out.text[k].value =
                        <<"int", IF IsNone(C25_Shower) THEN -1 ELSE C25_Shower[2]>>
              /\ \A k \in C25_Lines("IAU code") :
                    out.text[k].value =
                        <<"text", IF IsNone(C25_Shower) THEN "..." ELSE C25_Shower[3]>>

\* The report of a feasible Orbit that matches a shower has been printed
C25_Witness ==
    /\ pc = "printed"
    /\ ~IsNone(orb.ra_g)
    /\ ~IsNone(C25_Shower)
    /\ Len(out.shower_calls) = 1
    /\ \E k \in DOMAIN out.text :
          out.text[k].label = "IAU code" /\ out.text[k].value = <<"text", "PER">>

\* v_inf squared minus the squared escape velocity at the reference position
\* as the caller gave it
C26_Excess == FSub(FMul(orb.v_inf, orb.v_inf), GateEscapeSq)

\* C26 as stated: in every feasible Orbit returned v_g squared equals v_inf
\* squared minus 2*G*M_Earth/|eci_ref|, with the reference position as passed
\* in, and 0 < v_g < v_inf.
C26_GeocentricVelocitySquared ==
    ReturnsFeasible =>
        /\ FMul(orb.v_g, orb.v_g) = C26_Excess
        /\ FGt(orb.v_g, Fin(0))
        /\ FLt(orb.v_g, orb.v_inf)

\* C26 amended: in every feasible Orbit returned v_g is the square root, as
\* np.sqrt rounds it, of v_inf squared minus 2*G*M_Earth/|eci_ref| with the
\* reference position as passed in, so that the squares agree to within the
\* rounding of v_g, and 0 < v_g < v_inf.
C26_GeocentricVelocityRoot ==
    ReturnsFeasible =>
        /\ orb.v_g = FSqrt(C26_Excess)
        /\ ~FGt(FMul(FSub(orb.v_g, Fin(1)), FSub(orb.v_g, Fin(1))), C26_Excess)
        /\ ~FLt(FMul(FAdd(orb.v_g, Fin(1)), FAdd(orb.v_g, Fin(1))), C26_Excess)
        /\ FGt(orb.v_g, Fin(0))
        /\ FLt(orb.v_g, orb.v_inf)

\* A feasible Orbit is returned whose reference position was precessed and
\* whose v_g squared is not the difference exactly
C26_Witness ==
    /\ ReturnsFeasible
    /\ ValidGeometry
    /\ loc.eci_ref # args.eci_ref
    /\ IsFin(orb.v_g)
    /\ FMul(orb.v_g, orb.v_g) # C26_Excess
    /\ orb.v_g = FSqrt(C26_Excess)

\* The running invocation has consulted the ephemeris: opened the file, asked
\* for the position and velocity of the Earth, or asked for the solar longitude
C27_Consulted == calls.SPK_open > 0 \/ calls.earth_lookup > 0 \/ calls.sol_lon > 0

\* The guard of line 562 has passed in the running invocation
C27_GuardPassed ==
    /\ pc \in {"ephemeris", "kepler", "vectors", "elements", "anomalies", "date", "assign",
               "return", "raised"}
    /\ FGt(GateSpeedSq, GateEscapeSq)

C28_MovingUnitRadiant ==
    /\ ~args.stations_fixed
    /\ vectMag(args.radiant_eci) = Fin(Scale)

\* C28 as stated: with moving stations and a radiant of unit length v_inf
\* equals the v_init given, for all four combinations of reference_init and
\* rotation_correction.
C28_MovingVInfIsVInit ==
    (pc = "return" /\ C28_MovingUnitRadiant) => orb.v_inf = args.v_init

\* The velocity the correction starts from, v_init or v_avg
C28_Reference == IF args.reference_init THEN args.v_init ELSE args.v_avg

\* C28 amended: with moving stations and a radiant of unit length v_inf is the
\* v_init given exactly when rotation_correction is False; with the rotation
\* correction it is |v*radiant_eci| for the reference velocity v, plus
\* v_init - v_avg when that is v_avg, which equals v_init to within the
\* rounding of the vector magnitude (one part in the last place of the
\* reference velocity's scale) and not always exactly.
C28_MovingVInfIsVInitRounded ==
    (pc = "return" /\ C28_MovingUnitRadiant) =>
        /\ ~args.rotation_correction => orb.v_inf = args.v_init
        /\ args.rotation_correction =>
              /\ orb.v_inf =
                    FSub(FAdd(vectMag(VScale(C28_Reference, args.radiant_eci)), args.v_init),
                         C28_Reference)
              /\ ~FGt(FAbs(FSub(orb.v_inf, args.v_init)), FMul(C28_Reference, Fin(1)))

\* An Orbit of moving stations and an average reference point is returned with
\* the rotation correction, its v_inf next to the v_init given but not equal
C28_Witness ==
    /\ pc = "return"
    /\ C28_MovingUnitRadiant
    /\ args.rotation_correction
    /\ ~args.reference_init
    /\ args.v_avg # args.v_init
    /\ orb.v_inf # args.v_init
    /\ ~FGt(FAbs(FSub(orb.v_inf, args.v_init)), FMul(args.v_avg, Fin(1)))

\* C29: when the rotation speed v_e at the reference point is zero and the
\* radiant has unit length, v_init_norot is the v_init given and v_avg_norot
\* the v_avg given, for every combination of stations_fixed and
\* reference_init.
C29_ZeroRotationKeepsInputs ==
    (pc = "return" /\ loc.v_e = Fin(0) /\ vectMag(args.radiant_eci) = Fin(Scale)) =>
        /\ orb.v_init_norot = args.v_init
        /\ orb.v_avg_norot = args.v_avg

\* C30: MetSimGUI.saveUpdatedOrbit leaves the loaded trajectory unchanged:
\* at every point of the method, and after it, self.traj and self.traj.orbit
\* hold the values they had when the trajectory was loaded; calcOrbit is
\* called with the flags stations_fixed False, reference_init True,
\* rotation_correction False and with v_init and v_avg of the trajectory both
\* shifted by const.v_init - traj.orbit.v_init; the Orbit it returns is the
\* orbit of a trajectory object other than self.traj with the values of
\* self.traj otherwise, and never of self.traj; the report and the pickle
\* hold the values of that copy with the new Orbit.
C30_LoadedTrajectoryUnchanged ==
    LET self == frames["gui"]
        traj == heap[self.traj]
        diff == FSub(self.const_v_init, self.loaded.orbit.v_init)
        copy == [ traj  |-> SetAttrs(self.loaded.traj, [orbit |-> self.orb]),
                  orbit |-> heap[self.orb] ]
    IN  /\ traj = self.loaded.traj
        /\ heap[traj.orbit] = self.loaded.orbit
        /\ frames["A"].pc \notin {"idle"} =>
              /\ frames["A"].args.stations_fixed = FALSE
              /\ frames["A"].args.reference_init = TRUE
              /\ frames["A"].args.rotation_correction = FALSE
              /\ frames["A"].args.v_init = FAdd(self.loaded.traj.v_init, diff)
              /\ frames["A"].args.v_avg = FAdd(self.loaded.traj.v_avg, diff)
              /\ frames["A"].args.radiant_eci = self.loaded.traj.radiant_eci_mini
              /\ frames["A"].args.eci_ref = self.loaded.traj.state_vect_mini
              /\ frames["A"].args.jd_ref = self.loaded.traj.rbeg_jd
        /\ self.orb # 0 => /\ traj.orbit # self.orb
                           /\ frames["A"].pc # "idle" => self.orb = frames["A"].orb
        /\ self.pc \in {"attached", "reported", "pickled"} =>
              /\ self.traj_updated # self.traj
              /\ heap[self.traj_updated] = copy.traj
        /\ self.pc \in {"reported", "pickled"} => self.report = copy
        /\ self.pc = "pickled" => self.pickle = copy

\* The method has written the pickle for a model velocity other than the
\* stored orbit's, from a feasible recomputed Orbit
C30_Witness ==
    /\ frames["gui"].pc = "pickled"
    /\ frames["gui"].const_v_init # frames["gui"].loaded.orbit.v_init
    /\ frames["gui"].pickle.orbit.v_init # frames["gui"].loaded.orbit.v_init
    /\ OrbitCalculated(frames["gui"].pickle.orbit)
    /\ frames["gui"].pickle.traj.orbit # frames["gui"].loaded.traj.orbit
=============================================================================
